---- MODULE Spec2Model ----
(***************************************************************************)
(* A model of app.py: the LinkedIn prospecting pipeline (username          *)
(* extraction, Apify job polling, post filtering, research brief and       *)
(* message generation) and the session state the Streamlit page keeps.     *)
(*                                                                         *)
(* Python strings are sequences of one-character strings, so that split,   *)
(* strip, startswith, replace and len are computed as Python computes them.*)
(***************************************************************************)
EXTENDS Integers, Sequences, FiniteSets, TLC

VARIABLES
    \* extract_username_from_url
    profile_url, username, urlPc,
    \* poll_apify_run_with_status: the loop index, the place in the loop body,
    \* the returned value, the requests made so far, the sleeps since the
    \* latest status request, the latest answers and whether every earlier
    \* status answer was RUNNING
    attempt, pollPc, pollResult, nStatus, nDataset, nSleep,
    lastStatus, lastDataset, priorAllRunning, pollErrors,
    \* filter_professional_posts: the list given, the list returned
    posts_in, filtered, filterPc,
    \* scrape_linkedin_posts: the server's answer, the clock when the call
    \* starts and when the function reads it, the list returned, the errors
    \* and warnings shown
    response, callTime, filterTime, scraped, scrapePc, scrapeErrors,
    \* generate_research_brief and analyze_and_generate_message: the
    \* arguments, what the chat endpoint does, and what each returns
    prospect_data, sender_info, chat, brief_out, messages_out, genPc,
    \* st.session_state: the fields the handlers of the page read and write
    profile_data, research_brief, generated_messages, current_message_index,
    processing_status, session_sender_info, refine_mode,
    \* the latest run of the script: the button pressed, what the widgets and
    \* the servers gave it, the path it took and the messages it showed
    last_run,
    \* start_apify_run: the argument, the answer of the POST, the value
    \* returned and the errors shown
    start_username, start_answer, run_info, startErrors, startPc,
    \* generate_exact_style_fallback: the arguments and the value returned
    fallback_args, fallback_out, fallbackPc

urlVars == <<profile_url, username, urlPc>>
pollVars == <<attempt, pollPc, pollResult, nStatus, nDataset, nSleep,
              lastStatus, lastDataset, priorAllRunning, pollErrors>>
filterVars == <<posts_in, filtered, filterPc>>
scrapeVars == <<response, callTime, filterTime, scraped, scrapePc, scrapeErrors>>
genVars == <<prospect_data, sender_info, chat, brief_out, messages_out, genPc>>
sessionVars == <<profile_data, research_brief, generated_messages,
                 current_message_index, processing_status, session_sender_info,
                 refine_mode, last_run>>
startVars == <<start_username, start_answer, run_info, startErrors, startPc>>
fallbackVars == <<fallback_args, fallback_out, fallbackPc>>
vars == <<urlVars, pollVars, filterVars, scrapeVars, genVars, sessionVars,
          startVars, fallbackVars>>

(***************************************************************************)
(* Values that stand where a string may: None, a missing key and a value   *)
(* of another type. No string has a character of more than one letter, so  *)
(* none of them equals a string.                                           *)
(***************************************************************************)
None == <<"None">>
Absent == <<"Absent">>
NotAString == <<"NotAString">>

(***************************************************************************)
(* str operations                                                          *)
(***************************************************************************)
Max(a, b) == IF a >= b THEN a ELSE b
Min(a, b) == IF a <= b THEN a ELSE b

\* t == s[i:j] with 1-based inclusive bounds
Slice(s, i, j) == SubSeq(s, i, j)

\* s.startswith(p)
StartsWith(s, p) == Len(p) <= Len(s) /\ SubSeq(s, 1, Len(p)) = p

\* s.endswith(p)
EndsWith(s, p) == Len(p) <= Len(s) /\ SubSeq(s, Len(s) - Len(p) + 1, Len(s)) = p

\* s.find(p, from): the 1-based index of the first occurrence at or after
\* from, 0 when there is none
Find(s, p, from) ==
    LET hits == {i \in from..(Len(s) - Len(p) + 1) :
                    s[i] = p[1] /\ SubSeq(s, i, i + Len(p) - 1) = p}
    IN  IF hits = {} THEN 0 ELSE CHOOSE i \in hits : \A j \in hits : i <= j

\* p in s
Contains(s, p) == Find(s, p, 1) # 0

\* s.split(sep)[0]
SplitFirst(s, sep) ==
    LET i == Find(s, sep, 1)
    IN  IF i = 0 THEN s ELSE SubSeq(s, 1, i - 1)

\* s.split(sep)[-1]: split scans left to right over non-overlapping
\* occurrences, so the last piece follows the last occurrence it finds
RECURSIVE SplitLast(_, _)
SplitLast(s, sep) ==
    LET i == Find(s, sep, 1)
    IN  IF i = 0 THEN s ELSE SplitLast(SubSeq(s, i + Len(sep), Len(s)), sep)

\* s.strip(chars)
StripChars(s, chars) ==
    LET keep == {i \in 1..Len(s) : s[i] \notin chars}
    IN  IF keep = {} THEN <<>>
        ELSE SubSeq(s, CHOOSE i \in keep : \A j \in keep : i <= j,
                       CHOOSE i \in keep : \A j \in keep : i >= j)

\* s.split(sep): the pieces between the non-overlapping occurrences of sep,
\* scanning from the left
RECURSIVE SplitOn(_, _)
SplitOn(s, sep) ==
    LET i == Find(s, sep, 1)
    IN  IF i = 0 THEN <<s>>
        ELSE <<SubSeq(s, 1, i - 1)>> \o SplitOn(SubSeq(s, i + Len(sep), Len(s)), sep)

\* sep.join(pieces)
RECURSIVE Join(_, _)
Join(pieces, sep) ==
    IF pieces = <<>> THEN <<>>
    ELSE IF Len(pieces) = 1 THEN pieces[1]
    ELSE pieces[1] \o sep \o Join(Tail(pieces), sep)

\* s.replace(old, new)
RECURSIVE ReplaceAll(_, _, _)
ReplaceAll(s, old, new) ==
    LET i == Find(s, old, 1)
    IN  IF i = 0 THEN s
        ELSE SubSeq(s, 1, i - 1) \o new
             \o ReplaceAll(SubSeq(s, i + Len(old), Len(s)), old, new)

\* s.strip()
Whitespace == {" ", "\n", "\t"}
Strip(s) == StripChars(s, Whitespace)

\* s.split(): the runs of characters that are not whitespace
RECURSIVE Words(_)
Words(s) ==
    LET t == Strip(s)
        gaps == {i \in 1..Len(t) : t[i] \in Whitespace}
        g == IF gaps = {} THEN 0 ELSE CHOOSE i \in gaps : \A j \in gaps : i <= j
    IN  IF t = <<>> THEN <<>>
        ELSE IF g = 0 THEN <<t>>
        ELSE <<SubSeq(t, 1, g - 1)>> \o Words(SubSeq(t, g + 1, Len(t)))

\* str(n) of a natural number
DigitChars == <<"0","1","2","3","4","5","6","7","8","9">>
RECURSIVE Digits(_)
Digits(n) == IF n < 10 THEN <<DigitChars[n + 1]>> ELSE Digits(n \div 10) \o <<DigitChars[(n % 10) + 1]>>

(***************************************************************************)
(* extract_username_from_url                                               *)
(***************************************************************************)
ProfileMarker == <<"/","i","n","/">>

extract_username_from_url(u) ==
    IF Contains(u, ProfileMarker)
    THEN SplitFirst(StripChars(SplitLast(u, ProfileMarker), {"/"}), <<"?">>)
    ELSE u

\* The URLs tried: every string over UrlAlphabet up to MaxUrlLen characters,
\* and the URL the specification gives as its example.
MaxUrlLen == 7
UrlAlphabet == {"/", "i", "n", "?", "a"}
ExampleUrl == <<"h","t","t","p","s",":","/","/","l","i","n","k","e","d","i","n",".","c","o","m","/","i","n","/","j","d","o","e","/","?","x","=","1">>
ExampleUsername == <<"j","d","o","e">>

StringsUpTo(alphabet, n) == UNION {[1..k -> alphabet] : k \in 0..n}

Urls == StringsUpTo(UrlAlphabet, MaxUrlLen) \cup {ExampleUrl}

UrlIdle ==
    /\ profile_url = <<>>
    /\ username = None
    /\ urlPc = "idle"

UrlStart ==
    /\ profile_url \in Urls
    /\ username = None
    /\ urlPc = "ready"

ExtractUsername ==
    /\ urlPc = "ready"
    /\ username' = extract_username_from_url(profile_url)
    /\ urlPc' = "done"
    /\ UNCHANGED <<profile_url, pollVars, filterVars, scrapeVars, genVars, sessionVars, startVars, fallbackVars>>

(***************************************************************************)
(* start_apify_run                                                         *)
(***************************************************************************)
\* line 33: the one status that means the run was created
CreatedStatus == 201
MutIsCreatedAny2xx(code) == code \in 200..299
IsCreated(code) == code = CreatedStatus

\* The answer of the POST: an exception (timeout, connection error), or a
\* status with a body; the body is no JSON, or JSON whose "data" is missing,
\* is no mapping, lacks "id", lacks "defaultDatasetId", or has both.
StartStatuses == {200, 201, 202, 204, 302, 400, 401, 404, 429, 500, 503}
StartBodyKinds == {"not_json", "no_data", "data_not_dict", "no_id", "no_dataset_id", "job"}
RunIds == {"run1", "run2"}
DatasetIds == {"ds1", "ds2"}
StartAnswers ==
    {[kind |-> k, status |-> 0, body |-> "none", id |-> "", defaultDatasetId |-> ""] :
        k \in {"timeout", "connection_error"}} \cup
    {[kind |-> "status", status |-> c, body |-> b, id |-> "", defaultDatasetId |-> ""] :
        c \in StartStatuses, b \in StartBodyKinds \ {"job"}} \cup
    {[kind |-> "status", status |-> c, body |-> "job", id |-> r, defaultDatasetId |-> d] :
        c \in StartStatuses, r \in RunIds, d \in DatasetIds}

\* the value returned: the mapping of lines 35-39, or None
Job(run_id, dataset_id) ==
    [started |-> TRUE, run_id |-> run_id, dataset_id |-> dataset_id, status |-> "RUNNING"]
NoJob == [started |-> FALSE, run_id |-> "", dataset_id |-> "", status |-> ""]

\* lines 22-46: the value returned and the error shown, if any
start_apify_run(ans) ==
    IF ans.kind # "status"
    THEN [value |-> NoJob, errors |-> <<"Error starting Apify run">>, raised |-> FALSE]
    ELSE IF IsCreated(ans.status)
    THEN IF ans.body = "job"
         THEN [value |-> Job(ans.id, ans.defaultDatasetId), errors |-> <<>>, raised |-> FALSE]
         ELSE [value |-> NoJob, errors |-> <<"Error starting Apify run">>, raised |-> FALSE]
    ELSE [value |-> NoJob, errors |-> <<"Failed to start actor">>, raised |-> FALSE]

StartIdle ==
    /\ start_username = <<>>
    /\ start_answer = [kind |-> "timeout", status |-> 0, body |-> "none",
                       id |-> "", defaultDatasetId |-> ""]
    /\ run_info = NoJob
    /\ startErrors = <<>>
    /\ startPc = "idle"

StartStart ==
    /\ start_username \in {ExampleUsername, <<>>}
    /\ start_answer \in StartAnswers
    /\ run_info = NoJob
    /\ startErrors = <<>>
    /\ startPc = "ready"

StartRun ==
    /\ startPc = "ready"
    /\ LET r == start_apify_run(start_answer)
       IN  /\ run_info' = r.value
           /\ startErrors' = r.errors
           /\ startPc' = IF r.raised THEN "raised" ELSE "done"
    /\ UNCHANGED <<start_username, start_answer, urlVars, pollVars, filterVars,
                   scrapeVars, genVars, sessionVars, fallbackVars>>

(***************************************************************************)
(* poll_apify_run_with_status                                              *)
(***************************************************************************)
max_attempts == 60

\* What a GET of the run can answer: an exception (timeout, connection
\* error), a non-200 status, a 200 body without "data" (a KeyError, caught
\* like any exception), a 200 body whose data has no status (read as
\* UNKNOWN), or a 200 body with a status.
FailureStatuses == {"FAILED", "TIMED-OUT", "ABORTED"}
RunStatuses == {"RUNNING", "SUCCEEDED", "UNKNOWN", "READY"} \cup FailureStatuses
StatusAnswers == {"EXCEPTION", "HTTP_500", "NO_DATA", "NO_STATUS"} \cup RunStatuses

\* current_status of a 200 answer
current_status(ans) == IF ans = "NO_STATUS" THEN "UNKNOWN" ELSE ans

\* What a GET of the dataset items can answer: an exception, a non-200
\* status, or a 200 body that is a list, an object or another JSON value.
MaxItems == 2
Items == {"itemA", "itemB"}
ItemLists == UNION {[1..k -> Items] : k \in 0..MaxItems}
DatasetAnswers ==
    {[kind |-> "exception"], [kind |-> "http_500"], [kind |-> "scalar"]}
    \cup {[kind |-> "list", items |-> l] : l \in ItemLists}
    \cup {[kind |-> "dict", item |-> i] : i \in Items}

NoAnswer == "none"
NoDataset == [kind |-> "none"]
NoneItem == "None"

\* Where the loop body goes after the status answer: the dataset fetch, a
\* return of None, the sleep, or straight on to the next attempt.
MutAfterStatusNoAbort(ans) ==
    IF ans \in {"EXCEPTION", "NO_DATA", "HTTP_500"} THEN "sleep"
    ELSE IF current_status(ans) = "SUCCEEDED" THEN "dataset"
    ELSE IF current_status(ans) \in FailureStatuses \cup {"RUNNING"} THEN "sleep"
    ELSE "next"

\* a failed query that ends the call instead of being retried
MutAfterStatusFailsOnError(ans) ==
    IF ans \in {"EXCEPTION", "NO_DATA", "HTTP_500"} THEN "fail"
    ELSE IF current_status(ans) = "SUCCEEDED" THEN "dataset"
    ELSE IF current_status(ans) \in FailureStatuses THEN "fail"
    ELSE IF current_status(ans) = "RUNNING" THEN "sleep"
    ELSE "next"

AfterStatus(ans) ==
    IF ans \in {"EXCEPTION", "NO_DATA"} THEN "sleep"
    ELSE IF ans = "HTTP_500" THEN "sleep"
    ELSE IF current_status(ans) = "SUCCEEDED" THEN "dataset"
    ELSE IF current_status(ans) \in FailureStatuses THEN "fail"
    ELSE IF current_status(ans) = "RUNNING" THEN "sleep"
    ELSE "next"

\* Where it goes after the dataset answer, and the value a return gives.
AfterDataset(ans) ==
    IF ans.kind = "exception" THEN "sleep"
    ELSE IF ans.kind = "http_500" THEN "fail"
    ELSE IF ans.kind = "list" /\ Len(ans.items) > 0 THEN "return"
    ELSE IF ans.kind = "dict" THEN "return"
    ELSE "next"

MutDatasetValueLast(ans) ==
    IF ans.kind = "list" THEN ans.items[Len(ans.items)] ELSE ans.item

DatasetValue(ans) == IF ans.kind = "list" THEN ans.items[1] ELSE ans.item

PollIdle ==
    /\ attempt = 0
    /\ pollPc = "idle"
    /\ pollResult = NoAnswer
    /\ nStatus = 0 /\ nDataset = 0 /\ nSleep = 0
    /\ lastStatus = NoAnswer
    /\ lastDataset = NoDataset
    /\ priorAllRunning = TRUE
    /\ pollErrors = <<>>

PollStart ==
    /\ attempt = 0
    /\ pollPc = "status"
    /\ pollResult = NoAnswer
    /\ nStatus = 0 /\ nDataset = 0 /\ nSleep = 0
    /\ lastStatus = NoAnswer
    /\ lastDataset = NoDataset
    /\ priorAllRunning = TRUE
    /\ pollErrors = <<>>

MutNextAttemptOffByOne ==
    IF attempt + 1 < max_attempts + 1
    THEN /\ attempt' = attempt + 1
         /\ pollPc' = "status"
         /\ UNCHANGED <<pollResult, pollErrors>>
    ELSE /\ attempt' = attempt + 1
         /\ pollPc' = "done"
         /\ pollResult' = NoneItem
         /\ pollErrors' = Append(pollErrors, "Polling timeout")

\* The end of one pass of the loop body: the next attempt, or the loop's end
\* with the timeout error and None.
NextAttempt ==
    IF attempt + 1 < max_attempts
    THEN /\ attempt' = attempt + 1
         /\ pollPc' = "status"
         /\ UNCHANGED <<pollResult, pollErrors>>
    ELSE /\ attempt' = attempt + 1
         /\ pollPc' = "done"
         /\ pollResult' = NoneItem
         /\ pollErrors' = Append(pollErrors, "Polling timeout")

PollStatusQuery ==
    /\ pollPc = "status"
    /\ \E ans \in StatusAnswers :
        /\ nStatus' = nStatus + 1
        /\ priorAllRunning' = (priorAllRunning /\ lastStatus \in {NoAnswer, "RUNNING"})
        /\ lastStatus' = ans
        /\ CASE AfterStatus(ans) = "dataset" ->
                  /\ pollPc' = "dataset"
                  /\ UNCHANGED <<attempt, pollResult, pollErrors>>
             [] AfterStatus(ans) = "fail" ->
                  /\ pollPc' = "done"
                  /\ pollResult' = NoneItem
                  /\ pollErrors' = Append(pollErrors, "Apify run failed")
                  /\ UNCHANGED attempt
             [] AfterStatus(ans) = "sleep" ->
                  /\ pollPc' = "sleep"
                  /\ UNCHANGED <<attempt, pollResult, pollErrors>>
             [] OTHER -> NextAttempt
    /\ nSleep' = 0
    /\ UNCHANGED <<nDataset, lastDataset, urlVars, filterVars, scrapeVars, genVars, sessionVars, startVars, fallbackVars>>

PollDatasetQuery ==
    /\ pollPc = "dataset"
    /\ \E ans \in DatasetAnswers :
        /\ nDataset' = nDataset + 1
        /\ lastDataset' = ans
        /\ CASE AfterDataset(ans) = "return" ->
                  /\ pollPc' = "done"
                  /\ pollResult' = DatasetValue(ans)
                  /\ UNCHANGED <<attempt, pollErrors>>
             [] AfterDataset(ans) = "fail" ->
                  /\ pollPc' = "done"
                  /\ pollResult' = NoneItem
                  /\ pollErrors' = Append(pollErrors, "Failed to fetch dataset")
                  /\ UNCHANGED attempt
             [] AfterDataset(ans) = "sleep" ->
                  /\ pollPc' = "sleep"
                  /\ UNCHANGED <<attempt, pollResult, pollErrors>>
             [] OTHER -> NextAttempt
    /\ UNCHANGED <<nStatus, nSleep, lastStatus, priorAllRunning, urlVars, filterVars, scrapeVars, genVars, sessionVars, startVars, fallbackVars>>

\* time.sleep(10), which ends the pass of the loop body
PollSleep ==
    /\ pollPc = "sleep"
    /\ nSleep' = nSleep + 1
    /\ NextAttempt
    /\ UNCHANGED <<nStatus, nDataset, lastStatus, lastDataset, priorAllRunning, urlVars, filterVars, scrapeVars, genVars, sessionVars, startVars, fallbackVars>>


(***************************************************************************)
(* str.lower()                                                             *)
(***************************************************************************)
UpperCase == <<"A","B","C","D","E","F","G","H","I","J","K","L","M","N","O","P","Q","R","S","T","U","V","W","X","Y","Z">>
LowerCase == <<"a","b","c","d","e","f","g","h","i","j","k","l","m","n","o","p","q","r","s","t","u","v","w","x","y","z">>

LowerChar(c) ==
    IF \E i \in 1..26 : UpperCase[i] = c
    THEN LowerCase[CHOOSE i \in 1..26 : UpperCase[i] = c]
    ELSE c

Lower(s) == [i \in 1..Len(s) |-> LowerChar(s[i])]

IsString(v) == v \notin {None, Absent, NotAString}

(***************************************************************************)
(* filter_professional_posts                                               *)
(***************************************************************************)
exclude_keywords == <<
       <<"h","i","r","i","n","g">>,
       <<"j","o","b">>,
       <<"d","i","w","a","l","i">>,
       <<"h","o","l","i","d","a","y">>,
       <<"f","e","s","t","i","v","a","l">>,
       <<"b","i","r","t","h","d","a","y">>,
       <<"a","n","n","i","v","e","r","s","a","r","y">>,
       <<"w","i","s","h">>,
       <<"c","o","n","g","r","a","t">>,
       <<"t","h","a","n","k">>,
       <<"h","a","p","p","y">> >>

professional_keywords == <<
       <<"p","r","o","j","e","c","t">>,
       <<"l","a","u","n","c","h">>,
       <<"a","c","h","i","e","v","e","m","e","n","t">>,
       <<"t","e","a","m">>,
       <<"l","e","a","d">>,
       <<"d","e","v","e","l","o","p">>,
       <<"b","u","i","l","d">>,
       <<"c","r","e","a","t","e">>,
       <<"i","n","n","o","v","a","t","i","o","n">>,
       <<"g","r","o","w","t","h">>,
       <<"s","t","r","a","t","e","g","y">>,
       <<"b","u","s","i","n","e","s","s">>,
       <<"i","n","d","u","s","t","r","y">>,
       <<"m","a","r","k","e","t">>,
       <<"t","e","c","h">>,
       <<"s","o","f","t","w","a","r","e">>,
       <<"p","r","o","d","u","c","t">>,
       <<"s","e","r","v","i","c","e">>,
       <<"c","l","i","e","n","t">>,
       <<"c","u","s","t","o","m","e","r">> >>

\* A post is a mapping with a text and a timestamp, either of which may be
\* missing (Absent), null (None) or of another type; an entry of the list may
\* also be no mapping at all.
\* A timestamp is a number of milliseconds, held as its quotient and
\* remainder by 1000 (a number of milliseconds of this century does not fit
\* 32-bit integers), or it is missing, null or not a number.
NoTimestamp == [kind |-> "absent", sec |-> 0, ms |-> 0]
NotADict == [isdict |-> FALSE, text |-> Absent, timestamp |-> NoTimestamp]
IsDict(post) == post.isdict

\* post.get('text', ''): the default stands in for a missing key only
GetText(post) == IF post.text = Absent THEN <<>> ELSE post.text

\* .lower() exists on a string only
TextRaises(post) == IsDict(post) /\ GetText(post) \in {None, NotAString}

has_excluded(post_text) ==
    \E k \in 1..Len(exclude_keywords) : Contains(post_text, exclude_keywords[k])

has_professional(post_text) ==
    \E k \in 1..Len(professional_keywords) : Contains(post_text, professional_keywords[k])

MutKeepsProfessionalOrClean(post) ==
    /\ IsDict(post)
    /\ has_professional(Lower(GetText(post))) \/ ~has_excluded(Lower(GetText(post)))

\* the test of one entry of the loop: a mapping that is professional and not
\* excluded
KeepsPost(post) ==
    /\ IsDict(post)
    /\ has_professional(Lower(GetText(post)))
    /\ ~has_excluded(Lower(GetText(post)))

\* s[:n]
MutTakeAll(s, n) == s
Take(s, n) == SubSeq(s, 1, Min(n, Len(s)))

MaxKept == 2

\* the value returned, or the exception that escapes
Returns(v) == [raised |-> FALSE, value |-> v]
Raises == [raised |-> TRUE, value |-> <<>>]

filter_professional_posts(posts) ==
    IF posts = <<>> THEN Returns(<<>>)
    ELSE IF \E i \in 1..Len(posts) : TextRaises(posts[i]) THEN Raises
    ELSE Returns(Take(SelectSeq(posts, KeepsPost), MaxKept))

\* The lists tried: up to MaxPosts entries, each no mapping or a mapping
\* whose text is missing, null, not a string or one of SampleTexts.
MaxPosts == 4
SampleTexts == {
    <<>>,
    <<"T","e","a","m"," ","l","u","n","c","h">>,
    <<"H","I","R","I","N","G"," ","t","e","a","m">>,
    <<"H","a","p","p","y"," ","H","o","l","i","d","a","y">>,
    <<"P","r","o","d","u","c","t"," ","l","a","u","n","c","h">> }

FilterEntries ==
    {NotADict} \cup
    {[isdict |-> TRUE, text |-> t, timestamp |-> NoTimestamp] : t \in SampleTexts \cup {Absent, None, NotAString}}

FilterInputs == UNION {[1..k -> FilterEntries] : k \in 0..MaxPosts}

FilterIdle ==
    /\ posts_in = <<>>
    /\ filtered = Returns(<<>>)
    /\ filterPc = "idle"

FilterStart ==
    /\ posts_in \in FilterInputs
    /\ filtered = Returns(<<>>)
    /\ filterPc = "ready"

FilterPosts ==
    /\ filterPc = "ready"
    /\ filtered' = filter_professional_posts(posts_in)
    /\ filterPc' = "done"
    /\ UNCHANGED <<posts_in, urlVars, pollVars, scrapeVars, genVars, sessionVars, startVars, fallbackVars>>

(***************************************************************************)
(* scrape_linkedin_posts                                                   *)
(***************************************************************************)
SecondsPerDay == 86400
WindowDays == 30
MicrosPerMilli == 1000

\* A datetime is seconds and microseconds; timedelta(days=30) moves the
\* seconds only.
thirty_days_ago(now) == [sec |-> now.sec - WindowDays * SecondsPerDay, us |-> now.us]

\* datetime.fromtimestamp(timestamp / 1000)
post_date(ts) == [sec |-> ts.sec, us |-> ts.ms * MicrosPerMilli]

\* a >= b on datetimes
DateGE(a, b) == a.sec > b.sec \/ (a.sec = b.sec /\ a.us >= b.us)

\* "if timestamp:" a missing key, None and 0 are all falsy
Truthy(ts) == ts.kind \notin {"absent", "none"} /\ ~(ts.kind = "num" /\ ts.sec = 0 /\ ts.ms = 0)

\* the division raises on a value that is no number; the bare except skips
\* the post
ConversionRaises(ts) == ts.kind = "nan"

MutIsRecentIgnoresMissing(post, now) ==
    /\ IsDict(post)
    /\ ~ConversionRaises(post.timestamp)
    /\ (Truthy(post.timestamp) =>
            DateGE(post_date(post.timestamp), thirty_days_ago(now)))

\* the test of one entry of the loop, against the clock read in this call
IsRecent(post, now) ==
    /\ IsDict(post)
    /\ Truthy(post.timestamp)
    /\ ~ConversionRaises(post.timestamp)
    /\ DateGE(post_date(post.timestamp), thirty_days_ago(now))

\* line 74
SuccessStatuses == {200, 201}

\* the last two recent posts instead of the first two
MutScrapeKeepsLastTwo(resp, now) ==
    LET Recent(post) == IsRecent(post, now)
        recent == SelectSeq(resp.body, Recent)
    IN  IF resp.kind # "list" \/ resp.status \notin SuccessStatuses
        THEN [value |-> <<>>, errors |-> <<"Failed">>]
        ELSE [value |-> SubSeq(recent, Max(1, Len(recent) - MaxKept + 1), Len(recent)),
              errors |-> <<>>]

\* lines 48-111: the value returned and the errors shown for an answer of
\* the server, with the clock read at line 88
scrape_linkedin_posts(resp, now) ==
    LET Recent(post) == IsRecent(post, now)
    IN  IF resp.kind = "exception" \/ resp.kind = "not_json"
        THEN [value |-> <<>>, errors |-> <<"Error scraping posts">>]
        ELSE IF resp.status \notin SuccessStatuses
        THEN [value |-> <<>>, errors |-> <<"Failed">>]
        ELSE IF resp.kind = "not_list"
        THEN [value |-> <<>>, errors |-> <<"Unexpected response structure">>]
        ELSE [value |-> Take(SelectSeq(resp.body, Recent), MaxKept), errors |-> <<>>]

\* The server's answer: an exception (timeout, connection error), or a
\* status with a body that is no JSON, no list, or a list of entries.

\* The clock and the timestamps tried: around the 30-day boundary.
NowDays == 20762
Clocks == {[sec |-> NowDays * SecondsPerDay, us |-> u] : u \in {0, 5500, 999999}}
MaxDelaySeconds == 1
BoundarySec == NowDays * SecondsPerDay - WindowDays * SecondsPerDay

Num(sec, ms) == [kind |-> "num", sec |-> sec, ms |-> ms]
SampleTimestamps ==
    { [kind |-> k, sec |-> 0, ms |-> 0] : k \in {"absent", "none", "nan"} } \cup
    { Num(0, 0), Num(0, 1),
      Num(BoundarySec - 1, 999), Num(BoundarySec, 0), Num(BoundarySec, 5),
      Num(BoundarySec, 6), Num(NowDays * SecondsPerDay, 0) }

MaxResponsePosts == 3
ResponseEntries ==
    {NotADict} \cup {[isdict |-> TRUE, text |-> Absent, timestamp |-> t] : t \in SampleTimestamps}
ResponseLists == UNION {[1..k -> ResponseEntries] : k \in 0..MaxResponsePosts}

Responses ==
    {[kind |-> "exception", status |-> 0, body |-> <<>>]} \cup
    {[kind |-> "status", status |-> c, body |-> <<>>] : c \in {404, 500}} \cup
    {[kind |-> k, status |-> c, body |-> <<>>] : k \in {"not_json", "not_list"}, c \in SuccessStatuses} \cup
    {[kind |-> "list", status |-> c, body |-> l] : c \in SuccessStatuses, l \in ResponseLists}

ScrapeIdle ==
    /\ response = [kind |-> "exception", status |-> 0, body |-> <<>>]
    /\ callTime = [sec |-> 0, us |-> 0]
    /\ filterTime = [sec |-> 0, us |-> 0]
    /\ scraped = <<>>
    /\ scrapePc = "idle"
    /\ scrapeErrors = <<>>

ScrapeStart ==
    /\ response \in Responses
    /\ callTime \in Clocks
    /\ filterTime = callTime
    /\ scraped = <<>>
    /\ scrapePc = "ready"
    /\ scrapeErrors = <<>>

\* The whole call: the POST, whose answer comes after some delay, then the
\* checks of the answer and the date filter against the clock read then.
ScrapePosts ==
    /\ scrapePc = "ready"
    /\ \E d \in 0..MaxDelaySeconds :
          filterTime' = [sec |-> callTime.sec + d, us |-> callTime.us]
    /\ scraped' = scrape_linkedin_posts(response, filterTime').value
    /\ scrapeErrors' = scrapeErrors \o scrape_linkedin_posts(response, filterTime').errors
    /\ scrapePc' = "done"
    /\ UNCHANGED <<response, callTime, urlVars, pollVars, filterVars, genVars, sessionVars, startVars, fallbackVars>>

(***************************************************************************)
(* The chat-completion call of generate_research_brief and of              *)
(* analyze_and_generate_message: what requests.post and the reading of the *)
(* answer can give.                                                        *)
(*   timeout, connection_error   requests.post raises                      *)
(*   status                      a status other than 200                   *)
(*   not_json, bad_shape         200, and .json() or the path              *)
(*                               ["choices"][0]["message"]["content"]      *)
(*                               raises                                    *)
(*   null_content                200, content is null                      *)
(*   content                     200, content is a string                  *)
(***************************************************************************)
Timeout == [kind |-> "timeout", status |-> 0, content |-> <<>>]
ConnectionError == [kind |-> "connection_error", status |-> 0, content |-> <<>>]
HttpStatus(c) == [kind |-> "status", status |-> c, content |-> <<>>]
NotJson == [kind |-> "not_json", status |-> 200, content |-> <<>>]
BadShape == [kind |-> "bad_shape", status |-> 200, content |-> <<>>]
NullContent == [kind |-> "null_content", status |-> 200, content |-> None]
Content(c) == [kind |-> "content", status |-> 200, content |-> c]

(***************************************************************************)
(* generate_research_brief                                                 *)
(***************************************************************************)
BriefStatusHead == <<"R","e","s","e","a","r","c","h"," ","b","r","i","e","f"," ","g","e","n","e","r","a","t","i","o","n"," ","e","n","c","o","u","n","t","e","r","e","d"," ","a","n"," ","i","s","s","u","e"," ","(","S","t","a","t","u","s",":"," ">>
BriefStatusTail == <<")","."," ","T","h","e"," ","p","r","o","f","i","l","e"," ","d","a","t","a"," ","i","s"," ","l","o","a","d","e","d"," ","a","n","d"," ","r","e","a","d","y"," ","f","o","r"," ","m","e","s","s","a","g","e"," ","g","e","n","e","r","a","t","i","o","n",".">>
BriefTimeoutText == <<"R","e","s","e","a","r","c","h"," ","b","r","i","e","f"," ","g","e","n","e","r","a","t","i","o","n"," ","i","s"," ","t","a","k","i","n","g"," ","l","o","n","g","e","r"," ","t","h","a","n"," ","e","x","p","e","c","t","e","d","."," ","P","r","o","f","i","l","e"," ","d","a","t","a"," ","i","s"," ","l","o","a","d","e","d"," ","a","n","d"," ","r","e","a","d","y"," ","f","o","r"," ","m","e","s","s","a","g","e"," ","g","e","n","e","r","a","t","i","o","n",".">>
BriefUnavailableText == <<"R","e","s","e","a","r","c","h"," ","b","r","i","e","f"," ","s","e","r","v","i","c","e"," ","t","e","m","p","o","r","a","r","i","l","y"," ","u","n","a","v","a","i","l","a","b","l","e","."," ","P","r","o","f","i","l","e"," ","d","a","t","a"," ","l","o","a","d","e","d"," ","s","u","c","c","e","s","s","f","u","l","l","y",".">>
BriefReadyText == <<"P","r","o","f","i","l","e"," ","a","n","a","l","y","s","i","s"," ","r","e","a","d","y","."," ","F","o","c","u","s"," ","o","n"," ","m","e","s","s","a","g","e"," ","g","e","n","e","r","a","t","i","o","n",".">>

MutBriefNoInnerHandler(profile, outcome) ==
    IF ~profile.serialisable THEN Returns(BriefReadyText)
    ELSE IF outcome.kind = "timeout" THEN Returns(BriefTimeoutText)
    ELSE IF outcome.kind \in {"connection_error", "not_json", "bad_shape"} THEN Raises
    ELSE IF outcome.status = 200 THEN Returns(outcome.content)
    ELSE Returns(BriefStatusHead \o Digits(outcome.status) \o BriefStatusTail)

\* json.dumps raises on a value it cannot serialise (the outer handler); the
\* call's own handlers take a timeout and any other exception; a 200 answer
\* gives the content as it is, another status the sentence with the status.
generate_research_brief(profile, outcome) ==
    IF ~profile.serialisable THEN Returns(BriefReadyText)
    ELSE IF outcome.kind = "timeout" THEN Returns(BriefTimeoutText)
    ELSE IF outcome.kind \in {"connection_error", "not_json", "bad_shape"}
         THEN Returns(BriefUnavailableText)
    ELSE IF outcome.status = 200 THEN Returns(outcome.content)
    ELSE Returns(BriefStatusHead \o Digits(outcome.status) \o BriefStatusTail)

(***************************************************************************)
(* generate_exact_style_fallback                                           *)
(***************************************************************************)
S_there == <<"t","h","e","r","e">>
S_Professional == <<"P","r","o","f","e","s","s","i","o","n","a","l">>
S_their_role == <<"t","h","e","i","r"," ","r","o","l","e">>
S_their_company == <<"t","h","e","i","r"," ","c","o","m","p","a","n","y">>
S_Hi == <<"H","i"," ">>
S_QHi == <<"\"","H","i"," ">>
S_Q == <<"\"">>
S_comma == <<",">>
S_NL == <<"\n">>
S_SP == <<" ">>
S_Best == <<"B","e","s","t",",">>
S_Best_sp == <<"B","e","s","t",","," ">>
S_Best_nl == <<"B","e","s","t",",","\n">>
S_n1 == <<"1","."," ">>
S_n2 == <<"2","."," ">>
S_n3 == <<"3","."," ">>
S_at_sep == <<" ","a","t"," ">>
S_dash_sep == <<" ","-"," ">>
S_pipe_sep == <<" ","|"," ">>
T1_role == <<"Y","o","u","r"," ","r","o","l","e"," ">>
T1_as == <<"a","s"," ">>
T1_position == <<"i","n"," ","y","o","u","r"," ","p","o","s","i","t","i","o","n">>
T1_at == <<"a","t"," ">>
T1_caught == <<" ","c","a","u","g","h","t"," ","m","y"," ","a","t","t","e","n","t","i","o","n","."," ">>
T1_default == <<"I"," ","f","o","c","u","s"," ","o","n"," ","s","t","r","e","a","m","l","i","n","i","n","g"," ","o","p","e","r","a","t","i","o","n","s">>
T1_close == <<"."," ","W","o","u","l","d"," ","b","e"," ","g","l","a","d"," ","t","o"," ","c","o","n","n","e","c","t",".","\n","B","e","s","t",",","\n">>
T2_work_at == <<"Y","o","u","r"," ","w","o","r","k"," ","a","t"," ">>
T2_work == <<"Y","o","u","r"," ","p","r","o","f","e","s","s","i","o","n","a","l"," ","w","o","r","k">>
T2_aligns == <<" ","a","l","i","g","n","s"," ","w","i","t","h"," ","i","n","d","u","s","t","r","y"," ","s","h","i","f","t","s"," ","I","'","v","e"," ","b","e","e","n"," ","f","o","l","l","o","w","i","n","g","."," ">>
T2_default == <<"I","'","m"," ","e","x","p","l","o","r","i","n","g"," ","h","o","w"," ","a","u","t","o","m","a","t","i","o","n"," ","i","s"," ","r","e","s","h","a","p","i","n","g"," ","w","o","r","k","f","l","o","w","s">>
T2_close == <<"."," ","T","h","o","u","g","h","t"," ","i","t","'","d"," ","b","e"," ","g","r","e","a","t"," ","t","o"," ","c","o","n","n","e","c","t",".","\n","B","e","s","t",",","\n">>
T3_focus == <<"Y","o","u","r"," ","f","o","c","u","s"," ","o","n"," ">>
T3_approach == <<"Y","o","u","r"," ","a","p","p","r","o","a","c","h"," ","t","o"," ","p","r","o","f","e","s","s","i","o","n","a","l"," ","c","h","a","l","l","e","n","g","e","s">>
T3_resonates == <<" ","r","e","s","o","n","a","t","e","s"," ","w","i","t","h"," ","m","y"," ","w","o","r","k","."," ">>
T3_default == <<"I"," ","h","e","l","p"," ","s","t","r","e","a","m","l","i","n","e"," ","o","p","e","r","a","t","i","o","n","s"," ","t","h","r","o","u","g","h"," ","t","e","c","h","n","o","l","o","g","y">>
T3_close == <<"."," ","L","e","t","'","s"," ","c","o","n","n","e","c","t"," ","a","n","d"," ","e","x","c","h","a","n","g","e"," ","p","e","r","s","p","e","c","t","i","v","e","s",".","\n","B","e","s","t",",","\n">>

\* the truth value of a string or of what stands in its place
IsTruthy(v) == v \notin {Absent, None, <<>>}

\* str(v) inside an f-string
Fmt(v) == IF v = NotAString THEN <<"5">> ELSE IF v = None THEN <<"N","o","n","e">> ELSE v

\* x or default
OrElse(v, default) == IF IsTruthy(v) THEN Fmt(v) ELSE default

FallbackTemplate1(pn, sfn, desc, role, company) ==
    S_Hi \o pn \o S_comma \o S_NL
    \o T1_role \o (IF IsTruthy(role) THEN T1_as \o Fmt(role) ELSE T1_position)
    \o S_SP \o (IF IsTruthy(company) THEN T1_at \o Fmt(company) ELSE <<>>)
    \o T1_caught \o OrElse(desc, T1_default) \o T1_close \o sfn

FallbackTemplate2(pn, sfn, desc, role, company) ==
    S_Hi \o pn \o S_comma \o S_NL
    \o (IF IsTruthy(company) THEN T2_work_at \o Fmt(company) ELSE T2_work)
    \o T2_aligns \o OrElse(desc, T2_default) \o T2_close \o sfn

\* the third template, signed with the literal of the exception handler
MutTemplate3SignedProfessional(pn, sfn, desc, role, company) ==
    S_Hi \o pn \o S_comma \o S_NL
    \o (IF IsTruthy(role) THEN T3_focus \o Lower(role) ELSE T3_approach)
    \o T3_resonates \o OrElse(desc, T3_default) \o T3_close \o S_Professional

FallbackTemplate3(pn, sfn, desc, role, company) ==
    S_Hi \o pn \o S_comma \o S_NL
    \o (IF IsTruthy(role) THEN T3_focus \o Lower(role) ELSE T3_approach)
    \o T3_resonates \o OrElse(desc, T3_default) \o T3_close \o sfn

\* prospect_role.lower() exists on a string only
generate_exact_style_fallback(pn, sfn, desc, role, company) ==
    IF IsTruthy(role) /\ ~IsString(role) THEN Raises
    ELSE Returns(<< FallbackTemplate1(pn, sfn, desc, role, company),
                    FallbackTemplate2(pn, sfn, desc, role, company),
                    FallbackTemplate3(pn, sfn, desc, role, company) >>)

(***************************************************************************)
(* analyze_and_generate_message                                            *)
(*                                                                         *)
(* Prospect data is a mapping (or not) with fullname, basic_info, headline,*)
(* experience and posts; sender info is a mapping with name and role_desc. *)
(***************************************************************************)
MinMessageLen == 100
MessageCount == 3

\* name_parts[0] if name_parts else "there"
FirstNameOf(fullname) ==
    IF Words(fullname) = <<>> THEN S_there ELSE Words(fullname)[1]

\* lines 279-284
prospect_name(p) ==
    IF ~p.isdict THEN S_there
    ELSE IF IsTruthy(p.fullname) THEN FirstNameOf(p.fullname)
    ELSE IF p.basic_info.kind = "dict" /\ IsTruthy(p.basic_info.fullname)
         THEN FirstNameOf(p.basic_info.fullname)
    ELSE S_there

\* lines 287-296: the role and company of a headline
HeadlineRole(h) ==
    IF Contains(h, S_at_sep) THEN Strip(SplitOn(h, S_at_sep)[1])
    ELSE IF Contains(h, S_dash_sep) THEN Strip(SplitOn(h, S_dash_sep)[1])
    ELSE <<>>

HeadlineCompany(h) ==
    IF Contains(h, S_at_sep)
    THEN SplitFirst(SplitFirst(Strip(SplitOn(h, S_at_sep)[2]), S_pipe_sep), S_dash_sep)
    ELSE IF Contains(h, S_dash_sep) THEN Strip(SplitOn(h, S_dash_sep)[2])
    ELSE <<>>

\* d.get(key, '')
GetOrEmpty(v) == IF v = Absent THEN <<>> ELSE v

UsesExperience(p) ==
    /\ p.isdict
    /\ ~(IsTruthy(p.headline) /\ IsString(p.headline) /\ HeadlineRole(p.headline) # <<>>)
    /\ p.experience # <<>>

\* lines 287-304
prospect_role(p) ==
    IF ~p.isdict THEN <<>>
    ELSE IF UsesExperience(p) THEN GetOrEmpty(p.experience[1].title)
    ELSE IF IsTruthy(p.headline) THEN HeadlineRole(p.headline)
    ELSE <<>>

prospect_company(p) ==
    IF ~p.isdict THEN <<>>
    ELSE IF UsesExperience(p) THEN GetOrEmpty(p.experience[1].company)
    ELSE IF IsTruthy(p.headline) THEN HeadlineCompany(p.headline)
    ELSE <<>>

\* The reads of lines 277-315 that raise: a method of str on a value that is
\* no string, .get on a value that is no mapping.
ExtractionRaises(p) ==
    /\ p.isdict
    /\ \/ IsTruthy(p.fullname) /\ ~IsString(p.fullname)
       \/ ~IsTruthy(p.fullname) /\ p.basic_info.kind = "other"
       \/ /\ ~IsTruthy(p.fullname) /\ p.basic_info.kind = "dict"
          /\ IsTruthy(p.basic_info.fullname) /\ ~IsString(p.basic_info.fullname)
       \/ IsTruthy(p.headline) /\ ~IsString(p.headline)
       \/ /\ ~(IsTruthy(p.headline) /\ ~IsString(p.headline))
          /\ UsesExperience(p) /\ ~p.experience[1].isdict
       \/ /\ p.posts # <<>> /\ p.posts[1].isdict
          /\ IsTruthy(GetText(p.posts[1])) /\ ~IsString(GetText(p.posts[1]))

\* lines 318-320
sender_name(sender) == IF sender.name = Absent THEN S_Professional ELSE sender.name

SenderRaises(sender) ==
    /\ IsTruthy(sender_name(sender))
    /\ ~IsString(sender_name(sender)) \/ Words(sender_name(sender)) = <<>>

sender_first_name(sender) ==
    IF IsTruthy(sender_name(sender)) THEN Words(sender_name(sender))[1] ELSE S_Professional

sender_role_desc(sender) == GetOrEmpty(sender.role_desc)

\* The request is sent when nothing before line 388 raised.
CallMade(p, sender) == ~ExtractionRaises(p) /\ ~SenderRaises(sender)

\* lines 404-433: the scan of the answer's lines. The state of the scan is
\* the messages found, the lines of the message being collected, and
\* whether one is being collected.
Flush(st) ==
    IF st.current # <<>> /\ Len(Join(st.current, S_SP)) > MinMessageLen
    THEN Append(st.messages, Strip(Join(st.current, S_NL)))
    ELSE st.messages

IsStart(line, pn) ==
    StartsWith(line, S_Hi \o pn \o S_comma) \/ StartsWith(line, S_QHi \o pn \o S_comma)

IsAltStart(line) ==
    \/ StartsWith(line, S_QHi)
    \/ StartsWith(line, S_n1 \o S_QHi)
    \/ StartsWith(line, S_n2 \o S_QHi)
    \/ StartsWith(line, S_n3 \o S_QHi)

IsSignature(line, sfn) == StartsWith(line, S_Best) /\ Contains(Lower(line), Lower(sfn))

Unnumbered(t) == ReplaceAll(ReplaceAll(ReplaceAll(t, S_n1, <<>>), S_n2, <<>>), S_n3, <<>>)

ScanLine(st, raw, pn, sfn) ==
    LET line == Strip(raw) IN
    IF IsStart(line, pn)
    THEN [messages |-> Flush(st), current |-> <<line>>, collecting |-> TRUE]
    ELSE IF st.collecting /\ line # <<>>
    THEN IF IsSignature(line, sfn)
         THEN [messages |-> Append(st.messages, Strip(Join(Append(st.current, line), S_NL))),
               current |-> <<>>, collecting |-> FALSE]
         ELSE [st EXCEPT !.current = Append(st.current, line)]
    ELSE IF IsAltStart(line)
    THEN [messages |-> Flush(st),
          current |-> <<Unnumbered(ReplaceAll(line, S_Q, <<>>))>>,
          collecting |-> TRUE]
    ELSE st

RECURSIVE ScanFrom(_, _, _, _, _)
ScanFrom(st, lines, i, pn, sfn) ==
    IF i > Len(lines) THEN st
    ELSE ScanFrom(ScanLine(st, lines[i], pn, sfn), lines, i + 1, pn, sfn)

ParseMessages(content, pn, sfn) ==
    Flush(ScanFrom([messages |-> <<>>, current |-> <<>>, collecting |-> FALSE],
                   SplitOn(Strip(content), S_NL), 1, pn, sfn))

\* lines 437-451: one message cleaned
CleanMessage(m, sfn) ==
    LET unquoted == StripChars(m, {"\""})
        signed ==
            IF EndsWith(Strip(unquoted), S_Best_nl \o sfn) THEN unquoted
            ELSE IF Contains(unquoted, S_Best_sp \o sfn)
                 THEN ReplaceAll(unquoted, S_Best_sp \o sfn, S_Best_nl \o sfn)
            ELSE IF ~EndsWith(unquoted, S_Best_nl \o sfn)
                 THEN unquoted \o S_NL \o S_Best_nl \o sfn
            ELSE unquoted
    IN  Strip(Unnumbered(signed))

IsLongEnough(m) == Len(m) > MinMessageLen

\* lines 436-454
CleanMessages(messages, sfn) ==
    SelectSeq([i \in 1..Len(messages) |-> CleanMessage(messages[i], sfn)], IsLongEnough)

\* the except clause of line 470
HandlerFallback(sender) ==
    generate_exact_style_fallback(S_there, S_Professional, sender_role_desc(sender),
                                  S_their_role, S_their_company)

\* what the try block gives: a list, or an exception for the handler
MutPadOneShort(clean, fallbacks) ==
    IF Len(clean) >= MessageCount THEN Returns(Take(clean, MessageCount))
    ELSE IF fallbacks.raised THEN Raises
    ELSE IF clean # <<>>
         THEN Returns(clean \o Take(fallbacks.value, MessageCount - Len(clean) - 1))
    ELSE fallbacks

\* lines 456-465
ExactlyThree(clean, fallbacks) ==
    IF Len(clean) >= MessageCount THEN Returns(Take(clean, MessageCount))
    ELSE IF fallbacks.raised THEN Raises
    ELSE IF clean # <<>>
         THEN Returns(clean \o Take(fallbacks.value, MessageCount - Len(clean)))
    ELSE fallbacks

TryBlock(p, sender, outcome) ==
    IF ~CallMade(p, sender) THEN Raises
    ELSE LET pn == prospect_name(p)
             sfn == sender_first_name(sender)
             fallbacks == generate_exact_style_fallback(
                              pn, sfn, sender_role_desc(sender),
                              prospect_role(p), prospect_company(p))
         IN  IF outcome.kind \in {"timeout", "connection_error", "not_json",
                                  "bad_shape", "null_content"}
             THEN Raises
             ELSE IF outcome.status # 200 THEN fallbacks
             ELSE ExactlyThree(CleanMessages(ParseMessages(outcome.content, pn, sfn), sfn),
                               fallbacks)

MutNoHandler(p, sender, outcome) == TryBlock(p, sender, outcome)

analyze_and_generate_message(p, sender, outcome) ==
    LET tried == TryBlock(p, sender, outcome)
    IN  IF tried.raised THEN HandlerFallback(sender) ELSE tried

(***************************************************************************)
(* The inputs tried for the two functions that call the chat endpoint.     *)
(***************************************************************************)
N_JaneDoe == <<"J","a","n","e"," ","D","o","e">>
N_AnnLee == <<"A","n","n"," ","L","e","e">>
N_Blank == <<" "," ">>
N_Sam == <<"S","a","m">>
N_SamLee == <<"S","a","m"," ","L","e","e">>
N_Space == <<" ">>
H_EngineerAtAcme == <<"E","n","g","i","n","e","e","r"," ","a","t"," ","A","c","m","e">>
H_CtoInitech == <<"C","T","O"," ","-"," ","I","n","i","t","e","c","h">>
H_Founder == <<"F","o","u","n","d","e","r">>
X_Dev == <<"D","e","v">>
X_Initech == <<"I","n","i","t","e","c","h">>
X_ProductLaunch == <<"P","r","o","d","u","c","t"," ","l","a","u","n","c","h">>
X_BuildsTools == <<"b","u","i","l","d","s"," ","t","o","o","l","s">>

NoBasicInfo == [kind |-> "absent", fullname |-> Absent]
Prospect(fullname, basic_info, headline, experience, posts) ==
    [isdict |-> TRUE, serialisable |-> TRUE, fullname |-> fullname,
     basic_info |-> basic_info, headline |-> headline,
     experience |-> experience, posts |-> posts]

\* not a mapping at all
NotADictProspect ==
    [isdict |-> FALSE, serialisable |-> TRUE, fullname |-> Absent,
     basic_info |-> NoBasicInfo, headline |-> Absent, experience |-> <<>>, posts |-> <<>>]

JaneAtAcme == Prospect(N_JaneDoe, NoBasicInfo, H_EngineerAtAcme, <<>>, <<>>)

\* a value json.dumps cannot serialise
Unserialisable == [JaneAtAcme EXCEPT !.serialisable = FALSE]

SampleProspects ==
    { Prospect(f, b, H_EngineerAtAcme, <<>>, <<>>) :
        f \in {Absent, N_JaneDoe, N_Blank, NotAString},
        b \in {NoBasicInfo, [kind |-> "dict", fullname |-> N_AnnLee],
               [kind |-> "other", fullname |-> Absent]} }
    \cup
    { Prospect(N_JaneDoe, NoBasicInfo, h, e, <<>>) :
        h \in {Absent, H_EngineerAtAcme, H_CtoInitech, H_Founder, NotAString},
        e \in { <<>>,
                <<[isdict |-> TRUE, title |-> X_Dev, company |-> X_Initech]>>,
                <<[isdict |-> FALSE, title |-> Absent, company |-> Absent]>>,
                <<[isdict |-> TRUE, title |-> NotAString, company |-> X_Initech]>> } }
    \cup
    { Prospect(N_JaneDoe, NoBasicInfo, H_EngineerAtAcme, <<>>,
               <<[isdict |-> TRUE, text |-> t, timestamp |-> NoTimestamp]>>) :
        t \in {X_ProductLaunch, NotAString} }
    \cup {NotADictProspect}

SampleSenders ==
    { [name |-> n, role_desc |-> r] :
        n \in {Absent, <<>>, N_Sam, N_SamLee, N_Space}, r \in {Absent, X_BuildsTools} }

SamBuildsTools == [name |-> N_Sam, role_desc |-> X_BuildsTools]

\* the lines of the answers tried, and the answers
L_HiJane == <<"H","i"," ","J","a","n","e",",">>
L_1QHiJane == <<"1","."," ","\"","H","i"," ","J","a","n","e",",">>
L_2QHiJane == <<"2","."," ","\"","H","i"," ","J","a","n","e",",">>
L_3QHiJane == <<"3","."," ","\"","H","i"," ","J","a","n","e",",">>
L_BodyA == <<"Y","o","u","r"," ","r","o","l","e"," ","a","s"," ","E","n","g","i","n","e","e","r"," ","a","t"," ","A","c","m","e"," ","b","u","i","l","d","s"," ","o","n"," ","d","e","e","p"," ","e","x","p","e","r","i","e","n","c","e"," ","a","c","r","o","s","s"," ","a","u","d","i","t","s",","," ","t","r","a","n","s","f","e","r","s",","," ","a","n","d"," ","t","e","a","m"," ","o","p","e","r","a","t","i","o","n","s"," ","a","t"," ","s","c","a","l","e",".">>
L_BodyB == <<"I"," ","f","o","c","u","s"," ","o","n"," ","a","u","t","o","m","a","t","i","n","g"," ","s","e","r","v","i","c","i","n","g"," ","w","o","r","k","f","l","o","w","s"," ","t","o"," ","r","e","d","u","c","e"," ","r","i","s","k"," ","a","n","d"," ","i","m","p","r","o","v","e"," ","t","u","r","n","a","r","o","u","n","d","."," ","W","o","u","l","d"," ","b","e"," ","g","l","a","d"," ","t","o"," ","c","o","n","n","e","c","t",".">>
L_Body80 == <<"G","u","i","d","i","n","g"," ","e","n","g","i","n","e","e","r","i","n","g"," ","a","t"," ","A","c","m","e"," ","m","u","s","t"," ","b","e"," ","c","h","a","l","l","e","n","g","i","n","g","."," ","I"," ","b","u","i","l","d"," ","t","o","o","l","s","."," ","L","e","t"," ","u","s"," ","c","o","n","n","e","c","t",".",".">>
L_BodyShort == <<"L","e","t","'","s"," ","c","o","n","n","e","c","t",".">>
L_BestSam == <<"B","e","s","t",","," ","S","a","m">>
L_BestSamQ == <<"B","e","s","t",","," ","S","a","m","\"">>
L_Best == <<"B","e","s","t",",">>
L_Sam == <<"S","a","m">>
L_BestTight == <<"B","e","s","t",",","S","a","m">>
L_Intro == <<"H","e","r","e"," ","a","r","e"," ","3"," ","c","o","n","n","e","c","t","i","o","n"," ","m","e","s","s","a","g","e","s",":">>
L_Sorry == <<"S","o","r","r","y",","," ","I"," ","c","a","n","n","o","t"," ","h","e","l","p"," ","w","i","t","h"," ","t","h","a","t",".">>
L_Blank == <<>>

C_Three == Join(<<L_HiJane, L_BodyA, L_BodyB, L_BestSam, L_Blank, L_HiJane, L_BodyA, L_BestSam, L_Blank, L_HiJane, L_BodyB, L_BestSam>>, S_NL)
C_Four == Join(<<L_HiJane, L_BodyA, L_BestSam, L_HiJane, L_BodyB, L_BestSam, L_HiJane, L_BodyA, L_BodyB, L_BestSam, L_HiJane, L_BodyB, L_BodyA, L_BestSam>>, S_NL)
C_NumberedQuoted == Join(<<L_Intro, L_Blank, L_1QHiJane, L_BodyA, L_BestSamQ, L_Blank, L_2QHiJane, L_BodyB, L_BestSamQ, L_Blank, L_3QHiJane, L_BodyA, L_BodyB, L_BestSamQ>>, S_NL)
C_One == Join(<<L_Intro, L_Blank, L_HiJane, L_BodyA, L_BestSam>>, S_NL)
C_TwoUnsigned == Join(<<L_HiJane, L_BodyA, L_Blank, L_HiJane, L_BodyB>>, S_NL)
C_SplitSignature == Join(<<L_HiJane, L_BodyA, L_Best, L_Sam, L_Blank, L_HiJane, L_BodyB, L_Best, L_Sam>>, S_NL)
C_Short == Join(<<L_HiJane, L_BodyShort, L_BestSam>>, S_NL)
C_TightSignature == Join(<<L_HiJane, L_Body80, L_BestTight>>, S_NL)
C_Sorry == Join(<<L_Sorry>>, S_NL)
C_Empty == Join(<<>>, S_NL)

SampleContents == {C_Three, C_Four, C_NumberedQuoted, C_One, C_TwoUnsigned, C_SplitSignature, C_Short, C_TightSignature, C_Sorry, C_Empty}

\* the answers without a content to parse, and those with one
PlainOutcomes ==
    {Timeout, ConnectionError, HttpStatus(500), HttpStatus(401), NotJson, BadShape,
     NullContent}
ContentOutcomes == {Content(c) : c \in SampleContents}
SampleOutcomes == PlainOutcomes \cup ContentOutcomes

\* The answers with a content are tried with the prospects and senders
\* whose names the contents use or miss: Jane (with a headline, and with a
\* title that is no string), Ann, and no mapping; Sam, Sam Lee, and no name.
ParseProspects ==
    { JaneAtAcme,
      Prospect(N_JaneDoe, NoBasicInfo, Absent,
               <<[isdict |-> TRUE, title |-> NotAString, company |-> X_Initech]>>, <<>>),
      Prospect(Absent, [kind |-> "dict", fullname |-> N_AnnLee], H_EngineerAtAcme, <<>>, <<>>),
      NotADictProspect }
ParseSenders ==
    { SamBuildsTools,
      [name |-> N_SamLee, role_desc |-> Absent],
      [name |-> Absent, role_desc |-> X_BuildsTools] }

GenInputs ==
    ((SampleProspects \cup {Unserialisable}) \X SampleSenders \X PlainOutcomes)
    \cup (ParseProspects \X ParseSenders \X ContentOutcomes)

GenIdle ==
    /\ prospect_data = NotADictProspect
    /\ sender_info = [name |-> Absent, role_desc |-> Absent]
    /\ chat = Timeout
    /\ brief_out = Returns(<<>>)
    /\ messages_out = Returns(<<>>)
    /\ genPc = "idle"

GenStart ==
    /\ \E input \in GenInputs :
        /\ prospect_data = input[1]
        /\ sender_info = input[2]
        /\ chat = input[3]
    /\ brief_out = Returns(<<>>)
    /\ messages_out = Returns(<<>>)
    /\ genPc = "ready"

GenerateBrief ==
    /\ genPc = "ready"
    /\ brief_out' = generate_research_brief(prospect_data, chat)
    /\ genPc' = "brief_done"
    /\ UNCHANGED <<prospect_data, sender_info, chat, messages_out,
                   urlVars, pollVars, filterVars, scrapeVars, sessionVars, startVars, fallbackVars>>

GenerateMessages ==
    /\ genPc = "ready"
    /\ messages_out' = analyze_and_generate_message(prospect_data, sender_info, chat)
    /\ genPc' = "messages_done"
    /\ UNCHANGED <<prospect_data, sender_info, chat, brief_out,
                   urlVars, pollVars, filterVars, scrapeVars, sessionVars, startVars, fallbackVars>>

(***************************************************************************)
(* generate_exact_style_fallback on its own: the argument tuples tried.    *)
(***************************************************************************)
X_Engineer == <<"E","n","g","i","n","e","e","r">>
X_Acme == <<"A","c","m","e">>
FallbackNames == {S_there, <<"J","a","n","e">>, N_AnnLee, <<>>}
FallbackSenderNames == {N_Sam, S_Professional, <<>>}
FallbackDescs == {<<>>, X_BuildsTools}
FallbackRoles == {<<>>, X_Engineer, S_their_role, NotAString}
FallbackCompanies == {<<>>, X_Acme}
FallbackArgs ==
    { [pn |-> a, sfn |-> b, desc |-> c, role |-> d, company |-> e] :
        a \in FallbackNames, b \in FallbackSenderNames, c \in FallbackDescs,
        d \in FallbackRoles, e \in FallbackCompanies }

FallbackIdle ==
    /\ fallback_args = [pn |-> <<>>, sfn |-> <<>>, desc |-> <<>>, role |-> <<>>,
                        company |-> <<>>]
    /\ fallback_out = Returns(<<>>)
    /\ fallbackPc = "idle"

FallbackStart ==
    /\ fallback_args \in FallbackArgs
    /\ fallback_out = Returns(<<>>)
    /\ fallbackPc = "ready"

GenerateFallback ==
    /\ fallbackPc = "ready"
    /\ fallback_out' = generate_exact_style_fallback(
                           fallback_args.pn, fallback_args.sfn, fallback_args.desc,
                           fallback_args.role, fallback_args.company)
    /\ fallbackPc' = "done"
    /\ UNCHANGED <<fallback_args, urlVars, pollVars, filterVars, scrapeVars,
                   genVars, sessionVars, startVars>>

(***************************************************************************)
(* The session: st.session_state and the handlers of the page's buttons.   *)
(* One action is one run of the script with one button pressed.            *)
(***************************************************************************)
S_Ready == <<"R","e","a","d","y">>
S_Analyzing == <<"A","n","a","l","y","z","i","n","g"," ","P","r","o","s","p","e","c","t">>
S_Scraping == <<"S","c","r","a","p","i","n","g"," ","R","e","c","e","n","t"," ","P","o","s","t","s"," ","(","3","0"," ","d","a","y","s",")">>
S_GeneratingResearch == <<"G","e","n","e","r","a","t","i","n","g"," ","R","e","s","e","a","r","c","h">>
S_Error == <<"E","r","r","o","r">>

\* the empty mapping {} as sender information
NoSender == [name |-> Absent, role_desc |-> Absent]
\* None as profile data, and the empty mapping {}
NoProfile == [NotADictProspect EXCEPT !.fullname = None]
EmptyDictProfile == Prospect(Absent, NoBasicInfo, Absent, <<>>, <<>>)
ProfileTruthy(p) == p \notin {NoProfile, EmptyDictProfile}

\* the cap put on the length the message list may reach
MaxMessages == 4

\* what the name and role fields of the form may hold when Save is pressed
SenderNameInputs == {<<>>, N_Sam}
SenderRoleInputs == {<<>>, X_BuildsTools}

AnnAtAcme ==
    Prospect(Absent, [kind |-> "dict", fullname |-> N_AnnLee], H_EngineerAtAcme, <<>>, <<>>)

\* what poll_apify_run_with_status may return: None, an empty mapping, an
\* item that is no mapping, a profile
PolledProfiles ==
    { NoProfile, EmptyDictProfile, NotADictProspect, JaneAtAcme, AnnAtAcme }

\* what the posts endpoint may answer in an analysis, read at SessionNow:
\* an exception, no posts, three recent professional posts, a list with an
\* old post, an entry that is no mapping, a holiday post and two recent
\* professional posts after it, and a recent post whose text is null
SessionNow == [sec |-> NowDays * SecondsPerDay, us |-> 0]
RecentStamp == Num(NowDays * SecondsPerDay - SecondsPerDay, 0)
OldStamp == Num(BoundarySec - 1, 999)
X_TeamLunch == <<"T","e","a","m"," ","l","u","n","c","h">>
X_HappyHoliday == <<"H","a","p","p","y"," ","H","o","l","i","d","a","y">>
PostWith(t, ts) == [isdict |-> TRUE, text |-> t, timestamp |-> ts]
PostsAnswer(l) == [kind |-> "list", status |-> 201, body |-> l]
ThreeRecentPosts ==
    PostsAnswer(<<PostWith(X_ProductLaunch, RecentStamp),
                  PostWith(X_TeamLunch, RecentStamp),
                  PostWith(X_ProductLaunch, RecentStamp)>>)
MixedPosts ==
    PostsAnswer(<<PostWith(X_ProductLaunch, OldStamp), NotADict,
                  PostWith(X_HappyHoliday, RecentStamp),
                  PostWith(X_ProductLaunch, RecentStamp),
                  PostWith(X_TeamLunch, RecentStamp)>>)
SessionPostsAnswers ==
    { [kind |-> "exception", status |-> 0, body |-> <<>>],
      PostsAnswer(<<>>),
      ThreeRecentPosts,
      MixedPosts,
      PostsAnswer(<<PostWith(None, RecentStamp)>>) }
NoPostsAnswer == [kind |-> "none", status |-> 0, body |-> <<>>]

\* what the POST of start_apify_run may answer in an analysis
SessionStartAnswers ==
    { a \in StartAnswers :
        \/ a.kind = "timeout"
        \/ a.kind = "status" /\ a.status \in {200, 201} /\ a.body = "job"
                              /\ a.id = "run1" /\ a.defaultDatasetId = "ds1" }

\* what the chat endpoint may do in a brief call and in a generator call
SessionBriefOutcomes == {NullContent, Content(C_Sorry)}
SessionChatOutcomes == {Timeout, Content(C_One)}

\* The session holds few different values, so the functions the handlers
\* call are computed once for each: filter_professional_posts on the posts
\* scrape_linkedin_posts returns for each answer, analyze_and_generate_message on each profile a session can store
\* with each sender that can be saved, generate_research_brief on each such
\* profile.
\* the keyword filter applied to all the recent posts, truncated after it
MutFilterBeforeTruncation ==
    [a \in SessionPostsAnswers |->
        LET Recent(post) == IsRecent(post, SessionNow)
        IN  filter_professional_posts(
                IF a.kind = "list" THEN SelectSeq(a.body, Recent) ELSE <<>>)]

\* line 953
ScrapedFor == [a \in SessionPostsAnswers |-> scrape_linkedin_posts(a, SessionNow)]

\* lines 953-956
FilteredScraped ==
    [a \in SessionPostsAnswers |-> filter_professional_posts(ScrapedFor[a].value)]
SessionSenders ==
    { [name |-> n, role_desc |-> r] :
        n \in {m \in SenderNameInputs : IsTruthy(m)},
        r \in {d \in SenderRoleInputs : IsTruthy(d)} }
StoredProfiles ==
    { [p EXCEPT !.posts = FilteredScraped[l].value] :
        p \in {q \in PolledProfiles : ProfileTruthy(q) /\ q.isdict},
        l \in {k \in SessionPostsAnswers : ~FilteredScraped[k].raised} }
BriefFor ==
    [p \in StoredProfiles, o \in SessionBriefOutcomes |->
        generate_research_brief(p, o).value]
GeneratedFor ==
    [p \in StoredProfiles, s \in SessionSenders, o \in SessionChatOutcomes |->
        analyze_and_generate_message(p, s, o)]

\* an entry whose char_count is one more than the length of its text
MutEntryCountsOneMore(msg, option, refined_from) ==
    [text |-> msg, char_count |-> Len(msg) + 1, option |-> option,
     refined_from |-> refined_from]

\* lines 1001-1005 and 1133-1138: an entry of the message list; refined_from
\* is 0 in an entry that carries none (option numbers start at 1)
MessageEntry(msg, option, refined_from) ==
    [text |-> msg, char_count |-> Len(msg), option |-> option,
     refined_from |-> refined_from]

\* what a run of the script is remembered by: shown holds the kinds of
\* message it showed (st.success, st.error or st.warning, and the traceback
\* the page shows for an exception that escapes), calls the remote endpoints
\* it called, in the order of the calls
Run(handler, path, shown) ==
    [handler |-> handler, path |-> path, shown |-> shown,
     selected_option |-> 0, instructions |-> <<>>, chat |-> Timeout,
     posts_answer |-> NoPostsAnswer, calls |-> <<>>]
NoRun == Run("none", "", {})
ErrorIf(errors) == IF errors # <<>> THEN {"error"} ELSE {}

\* lines 789-806
SessionStart ==
    /\ profile_data = NoProfile
    /\ research_brief = None
    /\ generated_messages = <<>>
    /\ current_message_index = -1
    /\ processing_status = S_Ready
    /\ session_sender_info = NoSender
    /\ refine_mode = FALSE
    /\ last_run = NoRun

SessionIdle == SessionStart

otherVars == <<urlVars, pollVars, filterVars, scrapeVars, genVars, startVars, fallbackVars>>

\* lines 874-885: Save Your Information
SaveSender ==
    /\ \E name \in SenderNameInputs, role \in SenderRoleInputs :
         IF IsTruthy(name) /\ IsTruthy(role)
         THEN /\ session_sender_info' = [name |-> name, role_desc |-> role]
              /\ last_run' = Run("save", "saved", {"success"})
         ELSE /\ UNCHANGED session_sender_info
              /\ last_run' = Run("save", "incomplete", {"warning"})
    /\ UNCHANGED <<profile_data, research_brief, generated_messages,
                   current_message_index, processing_status, refine_mode, otherVars>>

\* lines 887-890: Clear Information
ClearSender ==
    /\ session_sender_info' = NoSender
    /\ last_run' = Run("clear", "cleared", {})
    /\ UNCHANGED <<profile_data, research_brief, generated_messages,
                   current_message_index, processing_status, refine_mode, otherVars>>

\* lines 928-974: the button is enabled, and the handler runs, only with
\* saved sender information and a URL.
CanAnalyze == session_sender_info # NoSender

\* the profile and the brief are stored, the list and the index are left
MutAnalysisStoresProfileOnly(polled, relevant_posts, briefOutcome) ==
    LET stored == [polled EXCEPT !.posts = relevant_posts]
    IN  /\ profile_data' = stored
        /\ research_brief' = BriefFor[stored, briefOutcome]
        /\ processing_status' = S_Ready
        /\ UNCHANGED <<generated_messages, current_message_index>>

\* what lines 962-971 store
MutAnalysisKeepsMessages(polled, relevant_posts, briefOutcome) ==
    LET stored == [polled EXCEPT !.posts = relevant_posts]
    IN  /\ profile_data' = stored
        /\ research_brief' = BriefFor[stored, briefOutcome]
        /\ processing_status' = S_Ready
        /\ UNCHANGED generated_messages
        /\ current_message_index' = -1

AnalysisStores(polled, relevant_posts, briefOutcome) ==
    LET stored == [polled EXCEPT !.posts = relevant_posts]
    IN  /\ profile_data' = stored
        /\ research_brief' = BriefFor[stored, briefOutcome]
        /\ processing_status' = S_Ready
        /\ generated_messages' = <<>>
        /\ current_message_index' = -1

\* the posts are fetched although polling gave no profile
MutCallsPostsWithoutProfile(path) ==
    CASE path = "not_configured" -> <<>>
      [] path = "start_failed" -> <<"start">>
      [] path = "poll_failed" -> <<"start", "status", "posts">>
      [] path = "raised" -> <<"start", "status", "posts">>
      [] OTHER -> <<"start", "status", "posts", "brief">>

\* The remote calls of one run of the handler, by the path it took:
\* start_apify_run posts once (line 940); poll_apify_run_with_status queries
\* the status at least once (line 944); scrape_linkedin_posts posts once
\* (line 953); generate_research_brief posts once (line 965), the profile
\* and its posts being parsed JSON, which json.dumps serialises.
AnalysisCalls(path) ==
    CASE path = "not_configured" -> <<>>
      [] path = "start_failed" -> <<"start">>
      [] path = "poll_failed" -> <<"start", "status">>
      [] path = "raised" -> <<"start", "status", "posts">>
      [] OTHER -> <<"start", "status", "posts", "brief">>

AnalysisRun(path, shown, answer) ==
    [Run("analyze", path, shown) EXCEPT
        !.posts_answer = answer, !.calls = AnalysisCalls(path)]

\* lines 933-974: Analyze Prospect, from the click to the end of the handler:
\* the job is started (start_apify_run on the answer of its POST), polled
\* (poll_apify_run_with_status returns None or an item of the dataset), the
\* posts are scraped and filtered, the brief is written. An exception
\* (filter_professional_posts raising, or an item polled that takes no key
\* at line 959) ends the handler where it is.
AnalyzeProspect ==
    /\ CanAnalyze
    /\ \E keysConfigured \in BOOLEAN :
         IF ~keysConfigured
         THEN /\ last_run' = AnalysisRun("not_configured", {"error"}, NoPostsAnswer)
              /\ UNCHANGED <<profile_data, research_brief, generated_messages,
                             current_message_index, processing_status>>
         ELSE \E startAnswer \in SessionStartAnswers :
         LET started == start_apify_run(startAnswer)
         IN  IF ~started.value.started
         THEN /\ processing_status' = S_Analyzing
              /\ last_run' = AnalysisRun("start_failed", ErrorIf(started.errors),
                                         NoPostsAnswer)
              /\ UNCHANGED <<profile_data, research_brief, generated_messages,
                             current_message_index>>
         ELSE \E polled \in PolledProfiles :
         IF ~ProfileTruthy(polled)
         THEN /\ processing_status' = S_Error
              /\ last_run' = AnalysisRun("poll_failed", {"error"}, NoPostsAnswer)
              /\ UNCHANGED <<profile_data, research_brief, generated_messages,
                             current_message_index>>
         ELSE \E answer \in SessionPostsAnswers :
         LET raw_posts == ScrapedFor[answer]
             relevant_posts == FilteredScraped[answer]
         IN  IF relevant_posts.raised \/ ~polled.isdict
             THEN /\ processing_status' = S_Scraping
                  /\ last_run' = AnalysisRun("raised",
                                     ErrorIf(raw_posts.errors) \cup {"traceback"},
                                     answer)
                  /\ UNCHANGED <<profile_data, research_brief, generated_messages,
                                 current_message_index>>
             ELSE /\ \E briefOutcome \in SessionBriefOutcomes :
                       AnalysisStores(polled, relevant_posts.value, briefOutcome)
                  /\ last_run' = AnalysisRun("stored",
                                     ErrorIf(raw_posts.errors) \cup {"success"},
                                     answer)
    /\ UNCHANGED <<session_sender_info, refine_mode, otherVars>>

\* line 977: the tabs are shown
ResultsShown ==
    /\ ProfileTruthy(profile_data)
    /\ IsTruthy(research_brief)
    /\ session_sender_info # NoSender

\* the chat call of analyze_and_generate_message (line 388), made when
\* nothing before it raised
ChatCalls(p, sender) == IF CallMade(p, sender) THEN <<"chat">> ELSE <<>>

\* the last message is left out
MutFreshDropsLast(messages) ==
    [i \in 1..(Len(messages) - 1) |-> MessageEntry(messages[i], i, 0)]

\* lines 999-1005
FreshEntries(messages) ==
    [i \in 1..Len(messages) |-> MessageEntry(messages[i], i, 0)]

\* lines 990-1006: Generate AI Messages
GenerateClicked ==
    /\ ResultsShown
    /\ \E outcome \in SessionChatOutcomes :
         /\ LET messages == GeneratedFor[profile_data, session_sender_info, outcome]
            IN  IF ~messages.raised /\ messages.value # <<>>
                THEN generated_messages' = FreshEntries(messages.value)
                ELSE UNCHANGED generated_messages
         /\ last_run' = [Run("generate", "generated", {}) EXCEPT
                             !.chat = outcome,
                             !.calls = ChatCalls(profile_data, session_sender_info)]
    /\ UNCHANGED <<profile_data, research_brief, current_message_index,
                   processing_status, session_sender_info, refine_mode, otherVars>>

\* line 1008: the options and the refinement section are shown
RefinementShown == ResultsShown /\ Len(generated_messages) > 0

\* lines 1090-1096: Refine This Message opens the form
RefineOpen ==
    /\ RefinementShown
    /\ refine_mode' = TRUE
    /\ last_run' = Run("refine_open", "form", {})
    /\ UNCHANGED <<profile_data, research_brief, generated_messages,
                   current_message_index, processing_status,
                   session_sender_info, otherVars>>

\* lines 1133-1138
MutAppendRefinedAtFront(entry) == <<entry>> \o generated_messages
AppendRefined(entry) == Append(generated_messages, entry)

\* line 1139: the option number (1-based) of the option selected (0-based)
MutRefinedFromIndex(selected_option) == selected_option
RefinedFrom(selected_option) == selected_option + 1

\* what may be typed in the instructions box
X_Shorter == <<"S","h","o","r","t","e","r">>
RefineInstructions == {<<>>, X_Shorter}

RefineRun(path, shown, selected_option, instructions, outcome) ==
    [Run("refine_submit", path, shown) EXCEPT
        !.selected_option = selected_option,
        !.instructions = instructions,
        !.chat = outcome,
        !.calls = IF path = "no_instructions" THEN <<>>
                  ELSE ChatCalls(profile_data, session_sender_info)]

\* lines 1094-1142: Generate Refined Version, with the option selected in
\* the box (0-based) and the instructions typed
RefineSubmit ==
    /\ RefinementShown
    /\ refine_mode
    /\ Len(generated_messages) < MaxMessages
    /\ \E selected_option \in 0..(Len(generated_messages) - 1),
          instructions \in RefineInstructions :
         IF ~IsTruthy(instructions)
         THEN /\ last_run' = RefineRun("no_instructions", {}, selected_option,
                                       instructions, Timeout)
              /\ UNCHANGED <<generated_messages, refine_mode>>
         ELSE \E outcome \in SessionChatOutcomes :
              LET refined_options ==
                      GeneratedFor[profile_data, session_sender_info, outcome]
              IN  IF ~refined_options.raised /\ refined_options.value # <<>>
                  THEN /\ generated_messages' =
                             AppendRefined(MessageEntry(refined_options.value[1],
                                                        Len(generated_messages) + 1,
                                                        RefinedFrom(selected_option)))
                       /\ refine_mode' = FALSE
                       /\ last_run' = RefineRun("refined", {"success"},
                                                selected_option, instructions, outcome)
                  ELSE /\ last_run' = RefineRun("no_options", {}, selected_option,
                                                instructions, outcome)
                       /\ UNCHANGED <<generated_messages, refine_mode>>
    /\ UNCHANGED <<profile_data, research_brief, current_message_index,
                   processing_status, session_sender_info, otherVars>>

\* lines 1144-1146: Cancel
RefineCancel ==
    /\ RefinementShown
    /\ refine_mode
    /\ refine_mode' = FALSE
    /\ last_run' = Run("refine_cancel", "cancelled", {})
    /\ UNCHANGED <<profile_data, research_brief, generated_messages,
                   current_message_index, processing_status,
                   session_sender_info, otherVars>>

(***************************************************************************)
(* Specifications                                                          *)
(***************************************************************************)
InitUrl == UrlStart /\ PollIdle /\ FilterIdle /\ ScrapeIdle /\ GenIdle /\ SessionIdle /\ StartIdle /\ FallbackIdle
NextUrl == ExtractUsername
SpecUrl == InitUrl /\ [][NextUrl]_vars

InitPoll == UrlIdle /\ PollStart /\ FilterIdle /\ ScrapeIdle /\ GenIdle /\ SessionIdle /\ StartIdle /\ FallbackIdle
NextPoll == PollStatusQuery \/ PollDatasetQuery \/ PollSleep
SpecPoll == InitPoll /\ [][NextPoll]_vars
\* The call runs in one thread: each request ends (by its answer or its
\* timeout) and each sleep ends, so a step that is enabled is taken.
FairSpecPoll == SpecPoll /\ WF_vars(NextPoll)

InitFilter == UrlIdle /\ PollIdle /\ FilterStart /\ ScrapeIdle /\ GenIdle /\ SessionIdle /\ StartIdle /\ FallbackIdle
NextFilter == FilterPosts
SpecFilter == InitFilter /\ [][NextFilter]_vars

InitScrape == UrlIdle /\ PollIdle /\ FilterIdle /\ ScrapeStart /\ GenIdle /\ SessionIdle /\ StartIdle /\ FallbackIdle
NextScrape == ScrapePosts
SpecScrape == InitScrape /\ [][NextScrape]_vars

InitGen == UrlIdle /\ PollIdle /\ FilterIdle /\ ScrapeIdle /\ GenStart /\ SessionIdle /\ StartIdle /\ FallbackIdle
NextGen == GenerateBrief \/ GenerateMessages
SpecGen == InitGen /\ [][NextGen]_vars

InitSession == UrlIdle /\ PollIdle /\ FilterIdle /\ ScrapeIdle /\ GenIdle /\ SessionStart /\ StartIdle /\ FallbackIdle
NextSession ==
    \/ SaveSender
    \/ ClearSender
    \/ AnalyzeProspect
    \/ GenerateClicked
    \/ RefineOpen
    \/ RefineSubmit
    \/ RefineCancel
SpecSession == InitSession /\ [][NextSession]_vars

InitStartRun == UrlIdle /\ PollIdle /\ FilterIdle /\ ScrapeIdle /\ GenIdle /\ SessionIdle
                /\ StartStart /\ FallbackIdle
NextStartRun == StartRun
SpecStart == InitStartRun /\ [][NextStartRun]_vars

InitFallback == UrlIdle /\ PollIdle /\ FilterIdle /\ ScrapeIdle /\ GenIdle /\ SessionIdle
                /\ StartIdle /\ FallbackStart
NextFallback == GenerateFallback
SpecFallback == InitFallback /\ [][NextFallback]_vars

(***************************************************************************)
(* Claims                                                                  *)
(***************************************************************************)
\* C3: for every input containing "/in/", the result is the path segment after
\* the marker with trailing slash and query string removed: it holds neither
\* "/" nor "?", and the example URL yields "jdoe".
UsernameIsBareSegment ==
    (urlPc = "done" /\ Contains(profile_url, ProfileMarker)) =>
        /\ \A i \in 1..Len(username) : username[i] \notin {"/", "?"}
        /\ (profile_url = ExampleUrl => username = ExampleUsername)

\* C4: a status answer of FAILED, TIMED-OUT or ABORTED ends the poll call at
\* once with None: no status request, dataset request or sleep follows it.
PollAbortsOnFailure ==
    lastStatus \in FailureStatuses =>
        /\ pollPc = "done"
        /\ pollResult = NoneItem
        /\ nSleep = 0
        /\ ~ENABLED (PollStatusQuery \/ PollDatasetQuery \/ PollSleep)

PollAbortedOnFirstAnswer ==
    lastStatus = "ABORTED" /\ nStatus = 1 /\ pollPc = "done" /\ pollResult = NoneItem

\* C5: RUNNING on requests 1..k-1, SUCCEEDED on request k and a dataset answer
\* of 200 with a non-empty list (or an object): the call returns the first
\* item (the object) after exactly k status requests and one dataset request.
SucceededWithItems ==
    /\ pollPc = "done"
    /\ priorAllRunning
    /\ lastStatus = "SUCCEEDED"
    /\ \/ lastDataset.kind = "dict"
       \/ lastDataset.kind = "list" /\ Len(lastDataset.items) > 0

PollReturnsFirstItem ==
    SucceededWithItems =>
        /\ pollResult = (IF lastDataset.kind = "list"
                         THEN Head(lastDataset.items) ELSE lastDataset.item)
        /\ nStatus = attempt + 1
        /\ nDataset = 1

PollSucceededOnThird ==
    /\ SucceededWithItems
    /\ nStatus = 3
    /\ lastDataset.kind = "list"
    /\ Len(lastDataset.items) = 2
    /\ pollResult = lastDataset.items[1]
    /\ pollResult # lastDataset.items[2]

\* C6: when every status request answers RUNNING the call returns None after
\* exactly 60 status requests and no dataset request.
PollTimesOutAfterMaxAttempts ==
    /\ (priorAllRunning /\ lastStatus \in {NoAnswer, "RUNNING"}) =>
            /\ nDataset = 0
            /\ nStatus <= max_attempts
            /\ (pollPc = "done" <=> (nStatus = max_attempts /\ nSleep = 1))
            /\ (pollPc = "done" => pollResult = NoneItem)

PollTimedOutAllRunning ==
    /\ priorAllRunning /\ lastStatus = "RUNNING"
    /\ pollPc = "done" /\ pollResult = NoneItem
    /\ nStatus = max_attempts

\* C7: filter_professional_posts returns at most 2 items, none of which has
\* an exclusion keyword in its lower-cased text, whatever else the text holds.
FilterKeepsAtMostTwoClean ==
    (filterPc = "done" /\ ~filtered.raised) =>
        /\ Len(filtered.value) <= 2
        /\ \A i \in 1..Len(filtered.value) :
              \A k \in 1..Len(exclude_keywords) :
                  ~Contains(Lower(filtered.value[i].text), exclude_keywords[k])

\* an input with a post that is professional and excluded at once, and more
\* than two posts that pass
FilterDroppedMixedPost ==
    /\ filterPc = "done" /\ ~filtered.raised
    /\ \E i \in 1..Len(posts_in) :
          /\ IsDict(posts_in[i]) /\ IsString(posts_in[i].text)
          /\ has_professional(Lower(posts_in[i].text))
          /\ has_excluded(Lower(posts_in[i].text))
    /\ Len(SelectSeq(posts_in, KeepsPost)) > 2
    /\ Len(filtered.value) = 2

\* C8: scrape_linkedin_posts returns no post whose timestamp lies more than
\* 30 days before the clock of the call, and no post without a timestamp
\* (missing, null or zero).
\* The age of a timestamp at an instant exceeds the window: compared by the
\* whole seconds beyond the window, then by the microseconds.
OlderThanWindow(ts, now) ==
    LET extra == (now.sec - ts.sec) - WindowDays * SecondsPerDay
    IN  extra >= 1 \/ (extra = 0 /\ now.us - ts.ms * MicrosPerMilli > 0)

HasNoTimestamp(ts) == ts.kind \in {"absent", "none"} \/ ts = Num(0, 0)

ScrapeReturnsOnlyRecent ==
    scrapePc = "done" =>
        \A i \in 1..Len(scraped) :
            /\ ~HasNoTimestamp(scraped[i].timestamp)
            /\ scraped[i].timestamp.kind = "num"
            /\ ~OlderThanWindow(scraped[i].timestamp, filterTime)
            /\ ~OlderThanWindow(scraped[i].timestamp, callTime)

\* a list holding a post just too old, a post without timestamp and a post
\* just recent enough, of which only the last is returned
ScrapeDroppedOldAndUndated ==
    /\ scrapePc = "done"
    /\ response.kind = "list"
    /\ \E i \in 1..Len(response.body) :
          /\ response.body[i].timestamp.kind = "num"
          /\ response.body[i].timestamp # Num(0, 0)
          /\ OlderThanWindow(response.body[i].timestamp, filterTime)
          /\ ~OlderThanWindow(response.body[i].timestamp,
                              [sec |-> filterTime.sec - 1, us |-> filterTime.us])
    /\ \E i \in 1..Len(response.body) : HasNoTimestamp(response.body[i].timestamp)
    /\ Len(scraped) = 1


\* C1: analyze_and_generate_message is total: whatever the prospect value, the
\* sender mapping and the answer of the chat call, it returns a list of
\* exactly 3 strings, each non-empty, and no exception escapes it.
GeneratorIsTotal ==
    genPc = "messages_done" =>
        /\ ~messages_out.raised
        /\ Len(messages_out.value) = MessageCount
        /\ \A i \in 1..Len(messages_out.value) :
            /\ IsString(messages_out.value[i])
            /\ Len(messages_out.value[i]) > 0

\* the call timed out, the handler took over, and 3 messages came back
GeneratorSurvivedTimeout ==
    /\ genPc = "messages_done"
    /\ chat = Timeout
    /\ CallMade(prospect_data, sender_info)
    /\ ~messages_out.raised
    /\ Len(messages_out.value) = MessageCount

\* C2: whenever the chat call made by analyze_and_generate_message is
\* unavailable (a non-200 status, a timeout or a transport exception), each of
\* the 3 returned strings contains the prospect's extracted first name and
\* ends with the sender's first name.
UnavailableChatKeepsNames ==
    ( /\ genPc = "messages_done"
      /\ CallMade(prospect_data, sender_info)
      /\ chat.kind \in {"status", "timeout", "connection_error"} ) =>
        /\ ~messages_out.raised
        /\ \A i \in 1..Len(messages_out.value) :
            /\ Contains(messages_out.value[i], prospect_name(prospect_data))
            /\ EndsWith(messages_out.value[i], sender_first_name(sender_info))

\* the texts generate_research_brief returns when it has no content to return
BriefFallbackSentences ==
    {BriefTimeoutText, BriefUnavailableText, BriefReadyText,
     BriefStatusHead \o Digits(chat.status) \o BriefStatusTail}

IsPrefix(s, t) == Len(s) <= Len(t) /\ SubSeq(t, 1, Len(s)) = s

\* C9: across any sequence of presentation actions in one session (analyze
\* prospect, generate messages, refine, save or clear sender info) the
\* generated-message list only grows by appending: no entry is ever removed
\* or replaced, so the list before a step is a prefix of the list after it.
MessagesOnlyGrow ==
    [][IsPrefix(generated_messages, generated_messages')]_vars

\* C9, as the handlers have it: the list grows only in a refinement, which
\* appends one entry and keeps the earlier ones; a generate call replaces the
\* whole list by 3 fresh entries; a successful analysis empties it; every
\* other step (saving or clearing the sender, opening or cancelling the
\* form, an analysis that does not succeed) leaves it as it is.
MessagesChangeOnlyAsHandled ==
    [][ \/ generated_messages' = generated_messages
        \/ /\ RefineSubmit
           /\ Len(generated_messages') = Len(generated_messages) + 1
           /\ IsPrefix(generated_messages, generated_messages')
        \/ /\ GenerateClicked
           /\ Len(generated_messages') = MessageCount
           /\ \A i \in 1..Len(generated_messages') :
                generated_messages'[i].refined_from = 0
        \/ /\ generated_messages' = <<>>
           /\ processing_status' = S_Ready
           /\ AnalyzeProspect ]_vars

\* a refinement has appended a fourth entry to the three of a generate call
RefinedEntryAppended ==
    /\ Len(generated_messages) = MessageCount + 1
    /\ \A i \in 1..MessageCount : generated_messages[i].refined_from = 0
    /\ generated_messages[MessageCount + 1].refined_from > 0
    /\ generated_messages[MessageCount + 1].option = MessageCount + 1

\* C11: start_apify_run yields a started job (run id and dataset id) only when
\* the POST answers 201 with a body holding data.id and data.defaultDatasetId;
\* for every other status (200 and the other 2xx included), for a 201 body
\* lacking either, and for any network failure it yields None, shows an
\* error and does not raise.
StartYieldsJobOnlyOn201 ==
    startPc # "raised" /\
    (startPc = "done" =>
        IF start_answer.kind = "status" /\ start_answer.status = 201
           /\ start_answer.body = "job"
        THEN /\ run_info = Job(start_answer.id, start_answer.defaultDatasetId)
             /\ startErrors = <<>>
        ELSE /\ run_info = NoJob
             /\ Len(startErrors) = 1)

\* a 200 answer with a complete body started no job and showed an error
StartRefused200 ==
    /\ startPc = "done"
    /\ start_answer.kind = "status"
    /\ start_answer.status = 200
    /\ start_answer.body = "job"
    /\ run_info = NoJob
    /\ startErrors # <<>>

\* C12: filter_professional_posts has no failure mode: for every input list,
\* entries that are no mappings, mappings without a text field and mappings
\* whose text is null or no string included, it returns a list and does not
\* raise.
FilterNeverRaises ==
    filterPc = "done" => ~filtered.raised

\* C13: generate_exact_style_fallback returns 3 templates for every tuple of
\* string arguments, and each template it returns opens with the line
\* "Hi <prospect name>," holding the name as given and closes with the line
\* "Best," followed by the sender's first name as the last line.
FallbackOpensAndSigns ==
    fallbackPc = "done" =>
        /\ (IsString(fallback_args.role) => ~fallback_out.raised)
        /\ ~fallback_out.raised =>
             /\ Len(fallback_out.value) = MessageCount
             /\ \A i \in 1..Len(fallback_out.value) :
                  /\ StartsWith(fallback_out.value[i],
                                S_Hi \o fallback_args.pn \o S_comma \o S_NL)
                  /\ EndsWith(fallback_out.value[i],
                              S_NL \o S_Best_nl \o fallback_args.sfn)

\* the templates built for a two-word name, with a role and a company
FallbackBuiltForAnnLee ==
    /\ fallbackPc = "done"
    /\ fallback_args.pn = N_AnnLee
    /\ fallback_args.sfn = N_Sam
    /\ fallback_args.role = X_Engineer
    /\ fallback_args.company = X_Acme
    /\ ~fallback_out.raised
    /\ Len(fallback_out.value) = MessageCount

\* C15: a SUCCEEDED status is terminal: once a status query answers
\* SUCCEEDED the call fetches the result set and returns, whatever the
\* dataset fetch answers, without another status query; so after that
\* answer the call is at the dataset fetch or is done.
SucceededIsTerminal ==
    lastStatus = "SUCCEEDED" => pollPc \in {"dataset", "done"}

\* C16: within one call every two consecutive status queries are separated
\* by exactly one sleep, whatever the earlier query answered: when the next
\* status query is about to be issued, one sleep has been made since the
\* latest one.
StatusQueriesOneSleepApart ==
    (pollPc = "status" /\ nStatus > 0) => nSleep = 1

FailedQueries == {"EXCEPTION", "HTTP_500", "NO_DATA"}

StoredPostsAtMostTwo ==
    profile_data.isdict => Len(profile_data.posts) \in 0..MaxKept

\* an analysis whose posts answer listed more than 2 recent professional
\* posts stored 2 of them
StoredTwoOfThreePosts ==
    /\ last_run.handler = "analyze"
    /\ last_run.path = "stored"
    /\ last_run.posts_answer = ThreeRecentPosts
    /\ Len(SelectSeq(last_run.posts_answer.body, KeepsPost)) > MaxKept
    /\ Len(profile_data.posts) = MaxKept

\* C18: after every analysis attempt that has run to its end (success,
\* job-start failure, terminal job failure, dataset fetch failure, polling
\* timeout) a success or error message has been shown and the processing
\* status is "Ready" or "Error", none of the in-progress values.
AnalysisEndsReadyOrError ==
    (last_run.handler = "analyze" /\ last_run.path # "not_configured") =>
        /\ last_run.shown \cap {"success", "error"} # {}
        /\ processing_status \in {S_Ready, S_Error}

\* C19 as stated (a step of the analysis handler is a step that leaves
\* "analyze" as the handler of the latest run): once a new analysis has run to its end, succeeded or
\* failed, the session holds nothing of the previous analysis: the message
\* list is empty, and profile and brief are those of this analysis or none.
AnalysisDiscardsPrevious ==
    [][(last_run'.handler = "analyze" /\ last_run'.path # "not_configured") =>
          /\ generated_messages' = <<>>
          /\ \/ last_run'.path = "stored"
             \/ profile_data' = NoProfile /\ research_brief' = None]_vars

\* C19: an analysis that succeeds replaces the stored profile (the item
\* polled with the posts filtered from this analysis's answer) and the brief
\* and empties the message list; an analysis that does not succeed (no
\* configuration, job-start failure, polling without a profile, an
\* exception) leaves profile, brief and message list as they were.
AnalysisReplacesOnlyOnSuccess ==
    [][last_run'.handler = "analyze" =>
          IF last_run'.path = "stored"
          THEN /\ profile_data' \in StoredProfiles
               /\ profile_data'.posts = FilteredScraped[last_run'.posts_answer].value
               /\ research_brief' \in {BriefFor[profile_data', o] : o \in SessionBriefOutcomes}
               /\ generated_messages' = <<>>
               /\ current_message_index' = -1
          ELSE UNCHANGED <<profile_data, research_brief, generated_messages>>]_vars

\* an analysis failed at polling while the session held a profile, a brief
\* and messages, and holds them still
FailedAnalysisKeptResults ==
    /\ last_run.handler = "analyze"
    /\ last_run.path = "poll_failed"
    /\ processing_status = S_Error
    /\ ProfileTruthy(profile_data)
    /\ IsTruthy(research_brief)
    /\ Len(generated_messages) >= MessageCount

\* C20: a refinement submitted with non-empty instructions appends exactly
\* one entry, the first option the generator returned, whose refined_from is
\* the option number of the message selected, and every earlier entry keeps
\* its position and content; a refinement submitted with empty instructions,
\* or cancelled, leaves the list unchanged.
RefinementAppendsOneEntry ==
    [][/\ (last_run'.handler = "refine_submit" /\ RefineSubmit) =>
            LET r == last_run'
                n == Len(generated_messages)
                first_option ==
                    GeneratedFor[profile_data, session_sender_info, r.chat].value[1]
            IN  IF r.instructions # <<>>
                THEN /\ Len(generated_messages') = n + 1
                     /\ \A i \in 1..n : generated_messages'[i] = generated_messages[i]
                     /\ generated_messages'[n + 1].text = first_option
                     /\ generated_messages'[n + 1].refined_from =
                            generated_messages[r.selected_option + 1].option
                ELSE generated_messages' = generated_messages
       /\ (last_run'.handler = "refine_cancel" /\ RefineCancel) =>
              generated_messages' = generated_messages]_vars

\* the second of three options was refined: the list holds a fourth entry
\* that refers to option 2
RefinedSecondOption ==
    /\ last_run.handler = "refine_submit"
    /\ last_run.instructions = X_Shorter
    /\ last_run.selected_option = 1
    /\ Len(generated_messages) = MessageCount + 1
    /\ generated_messages[MessageCount + 1].refined_from = 2
    /\ generated_messages[2].option = 2

\* the j-th fallback template for the names, role and company extracted from
\* a prospect and a sender
TemplateFor(j, p, sender) ==
    LET pn == prospect_name(p)
        sfn == sender_first_name(sender)
        desc == sender_role_desc(sender)
    IN  CASE j = 1 -> FallbackTemplate1(pn, sfn, desc, prospect_role(p), prospect_company(p))
          [] j = 2 -> FallbackTemplate2(pn, sfn, desc, prospect_role(p), prospect_company(p))
          [] OTHER -> FallbackTemplate3(pn, sfn, desc, prospect_role(p), prospect_company(p))

\* the usable messages: parsed from the answer, cleaned, longer than the floor
UsableMessages(p, sender, content) ==
    CleanMessages(ParseMessages(content, prospect_name(p), sender_first_name(sender)),
                  sender_first_name(sender))

\* the templates can be built: the role extracted is empty or a string
TemplatesBuildable(p) == ~IsTruthy(prospect_role(p)) \/ IsString(prospect_role(p))

Candidates(p, sender, content) ==
    ParseMessages(content, prospect_name(p), sender_first_name(sender))

\* C22: a candidate message parsed from the answer is among the returned
\* messages only if the joined length of its lines exceeds the floor of 100
\* characters.
ReturnedCandidatesExceedFloor ==
    ( /\ genPc = "messages_done"
      /\ chat.kind = "content"
      /\ CallMade(prospect_data, sender_info) ) =>
        LET candidates == Candidates(prospect_data, sender_info, chat.content)
            sfn == sender_first_name(sender_info)
        IN  \A j \in 1..Len(candidates) :
              (\E i \in 1..Len(messages_out.value) :
                  messages_out.value[i] = CleanMessage(candidates[j], sfn))
              => Len(candidates[j]) > MinMessageLen

\* a post of the answer passes the 30-day filter at a clock reading
PassesWindowAt(post, now) ==
    /\ IsDict(post)
    /\ post.timestamp.kind = "num"
    /\ ~HasNoTimestamp(post.timestamp)
    /\ ~OlderThanWindow(post.timestamp, now)

PassesWindow(post) == PassesWindowAt(post, filterTime)

\* the positions, in the server's list, of the posts that pass
PassingPositions == {i \in 1..Len(response.body) : PassesWindow(response.body[i])}

\* the number of passing positions up to position i
RankOf(i) == Cardinality({j \in PassingPositions : j <= i})

AnalysisOrder == <<"start", "status", "posts", "brief">>

MessageListEmptyOrThreeUp ==
    /\ [](Len(generated_messages) = 0 \/ Len(generated_messages) >= MessageCount)
    /\ [][(last_run'.handler = "generate" /\ GenerateClicked) =>
            /\ Len(generated_messages') = MessageCount
            /\ \A i \in 1..MessageCount :
                 /\ generated_messages'[i].refined_from = 0
                 /\ generated_messages'[i].text =
                        GeneratedFor[profile_data, session_sender_info,
                                     last_run'.chat].value[i]]_vars
    /\ [][(last_run'.handler = "analyze" /\ last_run'.path = "stored") =>
            generated_messages' = <<>>]_vars
    /\ [][(last_run'.handler = "refine_submit" /\ RefineSubmit) =>
            /\ Len(generated_messages) > 0
            /\ Len(generated_messages') \in
                   {Len(generated_messages), Len(generated_messages) + 1}]_vars

\* a generate call whose chat call answered has left three fresh entries,
\* the first of them parsed from the answer
GenerateLeftThreeFresh ==
    /\ last_run.handler = "generate"
    /\ last_run.chat = Content(C_One)
    /\ profile_data.fullname = N_JaneDoe
    /\ Len(UsableMessages(profile_data, session_sender_info, C_One)) = 1
    /\ generated_messages[1].text =
           UsableMessages(profile_data, session_sender_info, C_One)[1]
    /\ Len(generated_messages) = MessageCount
    /\ \A i \in 1..MessageCount : generated_messages[i].refined_from = 0
    /\ current_message_index = -1
    /\ ~refine_mode

\* C26: in every reachable session state the entry at 0-based position i of
\* the generated-message list has option = i + 1 and char_count equal to the
\* length of its text, and an entry that carries refined_from has
\* 1 <= refined_from < option: a refinement refers to an entry before it.
EntriesNumberedByPosition ==
    \A n \in 1..Len(generated_messages) :
        LET entry == generated_messages[n]
        IN  /\ entry.option = n
            /\ entry.char_count = Len(entry.text)
            /\ entry.refined_from # 0 =>
                   (1 <= entry.refined_from /\ entry.refined_from < entry.option)

\* the list holds a refined entry that refers to the last entry before it
RefinedFromLastBefore ==
    /\ Len(generated_messages) = MessageCount + 1
    /\ generated_messages[MessageCount + 1].refined_from = MessageCount
    /\ generated_messages[MessageCount + 1].option = MessageCount + 1
    /\ generated_messages[MessageCount + 1].char_count > MinMessageLen

\* the positions of a list of posts that pass the 30-day filter at the
\* session's clock and are among the first two that do
FirstTwoRecent(body) ==
    LET passing == {i \in 1..Len(body) : PassesWindowAt(body[i], SessionNow)}
    IN  {i \in passing : Cardinality({j \in passing : j <= i}) <= MaxKept}

\* of those, the positions of the posts that are professional and not
\* excluded
RetainedPositions(body) ==
    {i \in FirstTwoRecent(body) :
        /\ has_professional(Lower(body[i].text))
        /\ ~has_excluded(Lower(body[i].text))}

TextsGeneratedFor(p) ==
    { GeneratedFor[p, s, o].value[i] :
        s \in SessionSenders, o \in SessionChatOutcomes, i \in 1..MessageCount }

\* C28: in every reachable session state every entry of the
\* generated-message list was produced by a generator call whose prospect
\* argument was the profile data now stored: the stored profile changes only
\* in a successful analysis, which empties the list in the same step, and a
\* failed analysis changes neither the stored profile nor the list.
MessagesBelongToStoredProfile ==
    /\ [](\A n \in 1..Len(generated_messages) :
             /\ profile_data \in StoredProfiles
             /\ generated_messages[n].text \in TextsGeneratedFor(profile_data))
    /\ [][profile_data' # profile_data =>
            /\ last_run'.handler = "analyze"
            /\ last_run'.path = "stored"
            /\ generated_messages' = <<>>]_vars
    /\ [][(last_run'.handler = "analyze" /\ last_run'.path # "stored") =>
            /\ profile_data' = profile_data
            /\ generated_messages' = generated_messages]_vars

\* the profile stored is Ann's and the messages were generated with it:
\* they greet Ann, and none of them is a text generated for Jane
MessagesFollowNewProfile ==
    /\ profile_data.basic_info.fullname = N_AnnLee
    /\ Len(generated_messages) = MessageCount
    /\ last_run.handler = "generate"
    /\ last_run.chat = Content(C_One)
    /\ \A n \in 1..MessageCount :
          /\ StartsWith(generated_messages[n].text, S_Hi \o <<"A", "n", "n">>)
          /\ generated_messages[n].text \notin TextsGeneratedFor(JaneAtAcme)

====
